---- MODULE Spec2Model ----
(***************************************************************************)
(* L1 data-fee engine and hardfork registry of the mantle crate            *)
(* (crates/mantle/src/l1block.rs, crates/mantle/src/spec.rs).              *)
(*                                                                         *)
(* U256 values are modelled exactly: a value is the little-endian sequence *)
(* of its base-256 digits with no leading zero digit (zero is << >>), so   *)
(* equality of values is equality of sequences and a 256-bit value has at  *)
(* most 32 digits.  Saturating and wrapping operations are built on exact  *)
(* natural-number arithmetic over these sequences.                         *)
(***************************************************************************)
EXTENDS Integers, Sequences, FiniteSets, TLC

VARIABLES l1_block_info, fetch, ret, readers, journaled_state, cache

vars == <<l1_block_info, fetch, ret, readers, journaled_state, cache>>

(***************************************************************************)
(* Bounds of the model.                                                    *)
(***************************************************************************)
\* Longest transaction payload, in bytes.
MaxLen == 4

(***************************************************************************)
(* Exact arithmetic on naturals of any size (digit sequences, base 256).   *)
(***************************************************************************)
\* One digit is one byte.
Base == 2 ^ 8

\* The bytes of a 256-bit value.
U256Digits == 256 \div 8

Min2(a, b) == IF a <= b THEN a ELSE b

Max2(a, b) == IF a >= b THEN a ELSE b

Digit(a, i) == IF i <= Len(a) THEN a[i] ELSE 0

\* The sequence without its leading (most significant) zero digits.
RECURSIVE Norm(_)
Norm(a) ==
    IF a = << >> THEN a
    ELSE IF a[Len(a)] = 0 THEN Norm(SubSeq(a, 1, Len(a) - 1))
    ELSE a

\* The digits of a machine integer.
RECURSIVE FromNat(_)
FromNat(n) == IF n = 0 THEN << >> ELSE <<n % Base>> \o FromNat(n \div Base)

RECURSIVE AddFrom(_, _, _, _)
AddFrom(a, b, i, carry) ==
    IF i > Len(a) /\ i > Len(b)
    THEN IF carry = 0 THEN << >> ELSE <<carry>>
    ELSE LET s == Digit(a, i) + Digit(b, i) + carry
         IN  <<s % Base>> \o AddFrom(a, b, i + 1, s \div Base)

BigAdd(a, b) == AddFrom(a, b, 1, 0)

\* -1, 0, 1 as a is below, equal to, above b, for a and b of one length.
RECURSIVE CmpFrom(_, _, _)
CmpFrom(a, b, i) ==
    IF i = 0 THEN 0
    ELSE IF a[i] < b[i] THEN -1
    ELSE IF a[i] > b[i] THEN 1
    ELSE CmpFrom(a, b, i - 1)

BigCmp(a, b) ==
    IF Len(a) < Len(b) THEN -1
    ELSE IF Len(a) > Len(b) THEN 1
    ELSE CmpFrom(a, b, Len(a))

BigLe(a, b) == BigCmp(a, b) <= 0

BigLt(a, b) == BigCmp(a, b) < 0

RECURSIVE SubFrom(_, _, _, _)
SubFrom(a, b, i, borrow) ==
    IF i > Len(a) THEN << >>
    ELSE LET t == a[i] - Digit(b, i) - borrow
         IN  IF t < 0
             THEN <<t + Base>> \o SubFrom(a, b, i + 1, 1)
             ELSE <<t>> \o SubFrom(a, b, i + 1, 0)

\* a - b for a >= b.
BigSub(a, b) == Norm(SubFrom(a, b, 1, 0))

\* a * 256^k.
ShiftBy(a, k) == IF a = << >> THEN a ELSE [i \in 1..k |-> 0] \o a

RECURSIVE MulDigitFrom(_, _, _, _)
MulDigitFrom(a, m, i, carry) ==
    IF i > Len(a)
    THEN FromNat(carry)
    ELSE LET p == a[i] * m + carry
         IN  <<p % Base>> \o MulDigitFrom(a, m, i + 1, p \div Base)

\* a * m for a machine integer m below 2^23.
MulDigit(a, m) == IF m = 0 THEN << >> ELSE MulDigitFrom(a, m, 1, 0)

\* The machine integer of at most three digits.
SmallInt(b) == Digit(b, 1) + Base * Digit(b, 2) + Base * Base * Digit(b, 3)

\* b is below 2^23: a digit times b, and a carry, stay within 31 bits.
IsSmall(b) == Len(b) <= 2 \/ (Len(b) = 3 /\ b[3] < 128)

\* a * b, in one pass when a factor is small and else by halves of the
\* shorter factor.
RECURSIVE BigMul(_, _)
BigMul(a, b) ==
    IF Len(b) = 0 \/ Len(a) = 0 THEN << >>
    ELSE IF IsSmall(b) THEN MulDigit(a, SmallInt(b))
    ELSE IF IsSmall(a) THEN MulDigit(b, SmallInt(a))
    ELSE IF Len(a) < Len(b) THEN BigMul(b, a)
    ELSE LET h == Len(b) \div 2
         IN  BigAdd(BigMul(a, Norm(SubSeq(b, 1, h))),
                    ShiftBy(BigMul(a, Norm(SubSeq(b, h + 1, Len(b)))), h))

\* The largest q in lo..hi with d * q <= r, given that d * lo <= r.
RECURSIVE QuotDigit(_, _, _, _)
QuotDigit(r, d, lo, hi) ==
    IF lo = hi THEN lo
    ELSE LET mid == (lo + hi + 1) \div 2
         IN  IF BigLe(MulDigit(d, mid), r)
             THEN QuotDigit(r, d, mid, hi)
             ELSE QuotDigit(r, d, lo, mid - 1)

\* The digits from..Len(x) of x as a machine integer (at most three digits).
RECURSIVE TopInt(_, _)
TopInt(x, from) ==
    IF from > Len(x) THEN 0 ELSE x[from] + Base * TopInt(x, from + 1)

\* floor(r / d) for r < d * Base: the leading digits of r and d bound the
\* quotient digit from both sides, and the search settles it.
QuotOf(r, d) ==
    LET from == Max2(1, Len(d) - 1)
        R    == TopInt(r, from)
        D    == TopInt(d, from)
        lo   == IF from = 1 THEN R \div D ELSE R \div (D + 1)
        hi   == IF from = 1 THEN lo ELSE Min2(Base - 1, (R + 1) \div D)
    IN  QuotDigit(r, d, lo, hi)

\* Long division of the digits lo..hi of a by d, r being the remainder carried
\* down from the digits above hi: the quotient digits of lo..hi, most
\* significant first, and the remainder left.  The range is split in halves,
\* the upper half first.
RECURSIVE DivRange(_, _, _, _, _)
DivRange(a, d, lo, hi, r) ==
    IF lo = hi
    THEN LET r1 == Norm(<<a[lo]>> \o r)
             qd == QuotOf(r1, d)
         IN  [q |-> <<qd>>, r |-> BigSub(r1, MulDigit(d, qd))]
    ELSE LET mid   == (lo + hi) \div 2
             upper == DivRange(a, d, mid + 1, hi, r)
             lower == DivRange(a, d, lo, mid, upper.r)
         IN  [q |-> upper.q \o lower.q, r |-> lower.r]

\* The sequence in the opposite order (concatenated, to be kept as a tuple).
LittleEndian(s) == << >> \o [i \in 1..Len(s) |-> s[Len(s) + 1 - i]]

\* The quotient digits, most significant first, of the digits 1..i of a
\* behind the remainder r, by a divisor d below 2^27: short division, half a
\* byte at a time so that no intermediate value leaves 31 bits.
RECURSIVE ShortDiv(_, _, _, _)
ShortDiv(a, d, i, r) ==
    IF i = 0 THEN << >>
    ELSE LET r1 == r * 16 + (a[i] \div 16)
             r2 == (r1 % d) * 16 + (a[i] % 16)
         IN  <<(r1 \div d) * 16 + (r2 \div d)>>
                 \o ShortDiv(a, d, i - 1, r2 % d)

\* floor(a / d) for d > 0.
BigDiv(a, d) ==
    IF a = << >> THEN << >>
    ELSE IF Len(d) <= 3 \/ (Len(d) = 4 /\ d[4] < 8)
    THEN Norm(LittleEndian(ShortDiv(a, TopInt(d, 1), Len(a), 0)))
    ELSE Norm(LittleEndian(DivRange(a, d, 1, Len(a), << >>).q))

(***************************************************************************)
(* ruint::Uint<256, 4> (revm::primitives::U256): the operations the engine *)
(* uses.                                                                   *)
(***************************************************************************)
ZERO == << >>

MAX == << >> \o [i \in 1..U256Digits |-> Base - 1]

IsU256(a) == Len(a) <= U256Digits

from(n) == FromNat(n)

\* is_zero that holds of every value.
is_zero_always(a) == TRUE

is_zero(a) == a = ZERO

saturating_add(a, b) ==
    LET s == BigAdd(a, b) IN IF IsU256(s) THEN s ELSE MAX

saturating_mul(a, b) ==
    LET p == BigMul(a, b) IN IF IsU256(p) THEN p ELSE MAX

saturating_sub(a, b) == IF BigLe(a, b) THEN ZERO ELSE BigSub(a, b)

\* The `+`, `+=` and `*` of U256 wrap modulo 2^256.
wrapping_add(a, b) ==
    LET s == BigAdd(a, b) IN Norm(SubSeq(s, 1, Min2(Len(s), U256Digits)))

wrapping_mul(a, b) ==
    LET p == BigMul(a, b) IN Norm(SubSeq(p, 1, Min2(Len(p), U256Digits)))

wrapping_div(a, b) == BigDiv(a, b)

max(a, b) == IF BigLt(a, b) THEN b ELSE a

unwrap_or(opt, dflt) == IF opt.some THEN opt.val ELSE dflt

unwrap_or_default(opt) == unwrap_or(opt, ZERO)

None == [some |-> FALSE, val |-> ZERO]

Some(v) == [some |-> TRUE, val |-> v]

\* Big-endian 32 bytes of a value, and the value of a big-endian byte slice.
to_be_bytes(a) == [i \in 1..U256Digits |-> Digit(a, U256Digits + 1 - i)]

\* from_be_slice reading the slice least significant byte first.
from_be_slice_little_endian(bytes) == Norm(bytes)

from_be_slice(bytes) == Norm(LittleEndian(bytes))

(***************************************************************************)
(* MantleSpecId (spec.rs): the hardfork enumeration and its ordinals.      *)
(***************************************************************************)
\* Ordinal with CANYON and SHANGHAI exchanged.
Ordinal_canyon_before_shanghai ==
    [ FRONTIER |-> 0, FRONTIER_THAWING |-> 1, HOMESTEAD |-> 2, DAO_FORK |-> 3,
      TANGERINE |-> 4, SPURIOUS_DRAGON |-> 5, BYZANTIUM |-> 6,
      CONSTANTINOPLE |-> 7, PETERSBURG |-> 8, ISTANBUL |-> 9,
      MUIR_GLACIER |-> 10, BERLIN |-> 11, LONDON |-> 12, ARROW_GLACIER |-> 13,
      GRAY_GLACIER |-> 14, MERGE |-> 15, BEDROCK |-> 16, REGOLITH |-> 17,
      SHANGHAI |-> 19, CANYON |-> 18, CANCUN |-> 20, ECOTONE |-> 21,
      FJORD |-> 22, GRANITE |-> 23, PRAGUE |-> 24, PRAGUE_EOF |-> 25,
      LATEST |-> 255 ]

Ordinal ==
    [ FRONTIER |-> 0, FRONTIER_THAWING |-> 1, HOMESTEAD |-> 2, DAO_FORK |-> 3,
      TANGERINE |-> 4, SPURIOUS_DRAGON |-> 5, BYZANTIUM |-> 6,
      CONSTANTINOPLE |-> 7, PETERSBURG |-> 8, ISTANBUL |-> 9,
      MUIR_GLACIER |-> 10, BERLIN |-> 11, LONDON |-> 12, ARROW_GLACIER |-> 13,
      GRAY_GLACIER |-> 14, MERGE |-> 15, BEDROCK |-> 16, REGOLITH |-> 17,
      SHANGHAI |-> 18, CANYON |-> 19, CANCUN |-> 20, ECOTONE |-> 21,
      FJORD |-> 22, GRANITE |-> 23, PRAGUE |-> 24, PRAGUE_EOF |-> 25,
      LATEST |-> 255 ]

MantleSpecId == DOMAIN Ordinal

\* enabled with a strict comparison.
enabled_strictly(our, other) == Ordinal[our] > Ordinal[other]

enabled(our, other) == Ordinal[our] >= Ordinal[other]

is_enabled_in(self, other) == enabled(self, other)

(***************************************************************************)
(* Constants of l1block.rs.                                                *)
(***************************************************************************)
ZERO_BYTE_COST == 4

NON_ZERO_BYTE_COST == 16

BASE_FEE_SCALAR_OFFSET == 16

BLOB_BASE_FEE_SCALAR_OFFSET == 20

L1_BASE_FEE_SLOT == 1

L1_OVERHEAD_SLOT == 5

\* The scalar read from the slot of the overhead.
L1_SCALAR_SLOT_as_overhead == L1_OVERHEAD_SLOT

L1_SCALAR_SLOT == 6

TOKEN_RATIO_SLOT == 0

ECOTONE_L1_BLOB_BASE_FEE_SLOT == 7

ECOTONE_L1_FEE_SCALARS_SLOT == 3

EMPTY_SCALARS == [i \in 1..8 |-> 0]

L1_BLOCK_CONTRACT == "4200000000000000000000000000000000000015"

GAS_ORACLE_CONTRACT == "420000000000000000000000000000000000000F"

\* The transaction type byte of a deposit transaction.
DEPOSIT_TYPE == 127

(***************************************************************************)
(* L1BlockInfo and its cost functions.                                     *)
(***************************************************************************)
\* #[derive(Default)]: every field zero, None or false.
DefaultL1BlockInfo ==
    [ l1_base_fee             |-> ZERO,
      l1_fee_overhead         |-> None,
      l1_base_fee_scalar      |-> ZERO,
      l1_blob_base_fee        |-> None,
      l1_blob_base_fee_scalar |-> None,
      token_ratio             |-> None,
      empty_scalars           |-> FALSE ]

get_token_ratio(self) == unwrap_or(self.token_ratio, from(1))

\* crate::fast_lz::flz_compress_len is an opaque estimator: `fastlz` is the
\* length it returns for `input`.
flz_compress_len(input, fastlz) == fastlz

\* tx_estimated_size_fjord without its floor of 100_000_000.
tx_estimated_size_fjord_unfloored(self, input, fastlz) ==
    saturating_sub(saturating_mul(from(flz_compress_len(input, fastlz)), from(836500)),
                   from(42585600))

\* tx_estimated_size_fjord with a subtraction that wraps below zero.
tx_estimated_size_fjord_wrapping_sub(self, input, fastlz) ==
    LET product == saturating_mul(from(flz_compress_len(input, fastlz)), from(836500))
        minus   == IF BigLe(from(42585600), product)
                   THEN BigSub(product, from(42585600))
                   ELSE BigSub(BigAdd(BigAdd(MAX, from(1)), product), from(42585600))
    IN  max(minus, from(100000000))

tx_estimated_size_fjord(self, input, fastlz) ==
    LET fastlz_size == from(flz_compress_len(input, fastlz))
    IN  max(saturating_sub(saturating_mul(fastlz_size, from(836500)),
                           from(42585600)),
            from(100000000))

\* The u64 fold of data_gas over the bytes of the input.
RECURSIVE fold_byte_cost(_, _)
fold_byte_cost(input, acc) ==
    IF input = << >> THEN acc
    ELSE fold_byte_cost(Tail(input),
                        acc + (IF Head(input) = 0
                               THEN ZERO_BYTE_COST
                               ELSE NON_ZERO_BYTE_COST))

\* data_gas with the surcharge dropped one hardfork early, at BEDROCK.
data_gas_surcharge_until_bedrock(self, input, spec_id, fastlz) ==
    IF is_enabled_in(spec_id, "FJORD")
    THEN wrapping_div(saturating_mul(tx_estimated_size_fjord(self, input, fastlz),
                                     from(NON_ZERO_BYTE_COST)),
                      from(1000000))
    ELSE IF ~is_enabled_in(spec_id, "BEDROCK")
    THEN wrapping_add(from(fold_byte_cost(input, 0)),
                      wrapping_mul(from(NON_ZERO_BYTE_COST), from(68)))
    ELSE from(fold_byte_cost(input, 0))

data_gas(self, input, spec_id, fastlz) ==
    IF is_enabled_in(spec_id, "FJORD")
    THEN LET estimated_size == tx_estimated_size_fjord(self, input, fastlz)
         IN  wrapping_div(saturating_mul(estimated_size, from(NON_ZERO_BYTE_COST)),
                          from(1000000))
    ELSE LET rollup_data_gas_cost == from(fold_byte_cost(input, 0))
         IN  IF ~is_enabled_in(spec_id, "REGOLITH")
             THEN wrapping_add(rollup_data_gas_cost,
                               wrapping_mul(from(NON_ZERO_BYTE_COST), from(68)))
             ELSE rollup_data_gas_cost

\* calculate_l1_fee_scaled_ecotone scaled by the token ratio.
calculate_l1_fee_scaled_ecotone_with_ratio(self) ==
    saturating_mul(
        saturating_add(
            saturating_mul(saturating_mul(self.l1_base_fee, from(NON_ZERO_BYTE_COST)),
                           self.l1_base_fee_scalar),
            saturating_mul(unwrap_or_default(self.l1_blob_base_fee),
                           unwrap_or_default(self.l1_blob_base_fee_scalar))),
        get_token_ratio(self))

calculate_l1_fee_scaled_ecotone(self) ==
    LET calldata_cost_per_byte ==
            saturating_mul(saturating_mul(self.l1_base_fee, from(NON_ZERO_BYTE_COST)),
                           self.l1_base_fee_scalar)
        blob_cost_per_byte ==
            saturating_mul(unwrap_or_default(self.l1_blob_base_fee),
                           unwrap_or_default(self.l1_blob_base_fee_scalar))
    IN  saturating_add(calldata_cost_per_byte, blob_cost_per_byte)

\* calculate_tx_l1_cost_bedrock with multiplications that wrap.
calculate_tx_l1_cost_bedrock_wrapping(self, input, spec_id, fastlz) ==
    wrapping_div(
        wrapping_mul(
            wrapping_mul(
                wrapping_mul(
                    wrapping_add(data_gas(self, input, spec_id, fastlz),
                                 unwrap_or_default(self.l1_fee_overhead)),
                    self.l1_base_fee),
                self.l1_base_fee_scalar),
            get_token_ratio(self)),
        from(1000000))

calculate_tx_l1_cost_bedrock(self, input, spec_id, fastlz) ==
    LET rollup_data_gas_cost == data_gas(self, input, spec_id, fastlz)
    IN  wrapping_div(
            saturating_mul(
                saturating_mul(
                    saturating_mul(
                        saturating_add(rollup_data_gas_cost,
                                       unwrap_or_default(self.l1_fee_overhead)),
                        self.l1_base_fee),
                    self.l1_base_fee_scalar),
                get_token_ratio(self)),
            from(1000000))

\* calculate_tx_l1_cost_ecotone dividing the data gas by 16 before it
\* multiplies, as its doc comment writes the formula.
calculate_tx_l1_cost_ecotone_divides_first(self, input, spec_id, fastlz) ==
    IF self.empty_scalars
    THEN calculate_tx_l1_cost_bedrock(self, input, spec_id, fastlz)
    ELSE wrapping_div(
            saturating_mul(calculate_l1_fee_scaled_ecotone(self),
                           wrapping_div(data_gas(self, input, spec_id, fastlz),
                                        from(NON_ZERO_BYTE_COST))),
            from(1000000))

\* calculate_tx_l1_cost_ecotone without the empty_scalars fallback.
calculate_tx_l1_cost_ecotone_no_fallback(self, input, spec_id, fastlz) ==
    wrapping_div(saturating_mul(calculate_l1_fee_scaled_ecotone(self),
                                data_gas(self, input, spec_id, fastlz)),
                 from(1000000 * NON_ZERO_BYTE_COST))

\* calculate_tx_l1_cost_ecotone falling back to the Bedrock function with the
\* Bedrock hardfork.
calculate_tx_l1_cost_ecotone_as_bedrock(self, input, spec_id, fastlz) ==
    IF self.empty_scalars
    THEN calculate_tx_l1_cost_bedrock(self, input, "BEDROCK", fastlz)
    ELSE wrapping_div(saturating_mul(calculate_l1_fee_scaled_ecotone(self),
                                     data_gas(self, input, spec_id, fastlz)),
                      from(1000000 * NON_ZERO_BYTE_COST))

calculate_tx_l1_cost_ecotone(self, input, spec_id, fastlz) ==
    IF self.empty_scalars
    THEN calculate_tx_l1_cost_bedrock(self, input, spec_id, fastlz)
    ELSE LET rollup_data_gas_cost == data_gas(self, input, spec_id, fastlz)
             l1_fee_scaled == calculate_l1_fee_scaled_ecotone(self)
         IN  wrapping_div(saturating_mul(l1_fee_scaled, rollup_data_gas_cost),
                          from(1000000 * NON_ZERO_BYTE_COST))

\* calculate_tx_l1_cost_fjord taking the Bedrock fallback of Ecotone.
calculate_tx_l1_cost_fjord_with_fallback(self, input, fastlz) ==
    IF self.empty_scalars
    THEN calculate_tx_l1_cost_bedrock(self, input, "FJORD", fastlz)
    ELSE wrapping_div(saturating_mul(tx_estimated_size_fjord(self, input, fastlz),
                                     calculate_l1_fee_scaled_ecotone(self)),
                      BigMul(from(1000000), from(1000000)))

calculate_tx_l1_cost_fjord(self, input, fastlz) ==
    LET l1_fee_scaled == calculate_l1_fee_scaled_ecotone(self)
        estimated_size == tx_estimated_size_fjord(self, input, fastlz)
    IN  wrapping_div(saturating_mul(estimated_size, l1_fee_scaled),
                     BigMul(from(1000000), from(1000000)))

\* calculate_tx_l1_cost without the check of the deposit type byte.
calculate_tx_l1_cost_charges_deposits(self, input, spec_id, fastlz) ==
    IF input = << >>
    THEN ZERO
    ELSE IF is_enabled_in(spec_id, "FJORD")
    THEN calculate_tx_l1_cost_fjord(self, input, fastlz)
    ELSE IF is_enabled_in(spec_id, "ECOTONE")
    THEN calculate_tx_l1_cost_ecotone(self, input, spec_id, fastlz)
    ELSE calculate_tx_l1_cost_bedrock(self, input, spec_id, fastlz)

\* calculate_tx_l1_cost testing ECOTONE before FJORD.
calculate_tx_l1_cost_ecotone_first(self, input, spec_id, fastlz) ==
    IF input = << >> \/ Head(input) = DEPOSIT_TYPE
    THEN ZERO
    ELSE IF is_enabled_in(spec_id, "ECOTONE")
    THEN calculate_tx_l1_cost_ecotone(self, input, spec_id, fastlz)
    ELSE IF is_enabled_in(spec_id, "FJORD")
    THEN calculate_tx_l1_cost_fjord(self, input, fastlz)
    ELSE calculate_tx_l1_cost_bedrock(self, input, spec_id, fastlz)

calculate_tx_l1_cost(self, input, spec_id, fastlz) ==
    IF input = << >> \/ Head(input) = DEPOSIT_TYPE
    THEN ZERO
    ELSE IF is_enabled_in(spec_id, "FJORD")
    THEN calculate_tx_l1_cost_fjord(self, input, fastlz)
    ELSE IF is_enabled_in(spec_id, "ECOTONE")
    THEN calculate_tx_l1_cost_ecotone(self, input, spec_id, fastlz)
    ELSE calculate_tx_l1_cost_bedrock(self, input, spec_id, fastlz)

(***************************************************************************)
(* L1BlockInfo::try_fetch against a database.  A database is its storage   *)
(* (a value for every slot the engine can read) and the number of the      *)
(* call, counted from 1, at which it fails (0: it never fails).            *)
(***************************************************************************)
\* bool::then that reads the value whatever cond is.
bool_then_always(cond, value) == Some(value)

\* bool::then(..).transpose()?: the value is read only when cond holds.
bool_then(cond, value) == IF cond THEN Some(value) ELSE None

Basic(address) == [kind |-> "basic", address |-> address]

Storage(address, index) == [kind |-> "storage", address |-> address, index |-> index]

\* CallLog of a fetch that makes every call of its plan, a failure or not.
CallLog_whole_plan(db, plan, n) ==
    [i \in 1..Len(plan) |->
        IF plan[i].kind = "basic"
        THEN [kind |-> "basic", address |-> plan[i].address, ok |-> i # db.fail_at]
        ELSE [kind |-> "storage", address |-> plan[i].address,
              index |-> plan[i].index, ok |-> i # db.fail_at,
              value |-> IF i # db.fail_at
                        THEN db.storage[<<plan[i].address, plan[i].index>>]
                        ELSE ZERO]]

\* The calls made so far, each with its outcome.
CallLog(db, plan, n) ==
    [i \in 1..n |->
        IF plan[i].kind = "basic"
        THEN [kind |-> "basic", address |-> plan[i].address, ok |-> i # db.fail_at]
        ELSE [kind |-> "storage", address |-> plan[i].address,
              index |-> plan[i].index, ok |-> i # db.fail_at,
              value |-> IF i # db.fail_at
                        THEN db.storage[<<plan[i].address, plan[i].index>>]
                        ELSE ZERO]]

\* The account touches with the L1 block account touched only from ECOTONE.
AccountTouches_from_ecotone(spec_id) ==
    (IF is_enabled_in(spec_id, "ECOTONE")
     THEN <<Basic(L1_BLOCK_CONTRACT)>> ELSE << >>)
    \o <<Basic(GAS_ORACLE_CONTRACT)>>

\* The accounts try_fetch loads before it reads storage: the L1 block account
\* from CANCUN on, the gas oracle always.
AccountTouches(spec_id) ==
    (IF is_enabled_in(spec_id, "CANCUN")
     THEN <<Basic(L1_BLOCK_CONTRACT)>> ELSE << >>)
    \o <<Basic(GAS_ORACLE_CONTRACT)>>

\* bytes[lo..hi] of Rust, on a sequence indexed from 1.
Slice(bytes, lo, hi) == SubSeq(bytes, lo + 1, hi)

try_fetch(db, spec_id) ==
    LET head ==
            AccountTouches(spec_id)
            \o <<Storage(L1_BLOCK_CONTRACT, L1_BASE_FEE_SLOT),
                 Storage(GAS_ORACLE_CONTRACT, TOKEN_RATIO_SLOT)>>
        l1_base_fee == db.storage[<<L1_BLOCK_CONTRACT, L1_BASE_FEE_SLOT>>]
        token_ratio == db.storage[<<GAS_ORACLE_CONTRACT, TOKEN_RATIO_SLOT>>]
        l1_fee_overhead == db.storage[<<L1_BLOCK_CONTRACT, L1_OVERHEAD_SLOT>>]
        l1_fee_scalar == db.storage[<<L1_BLOCK_CONTRACT, L1_SCALAR_SLOT>>]
        l1_blob_base_fee == db.storage[<<L1_BLOCK_CONTRACT, ECOTONE_L1_BLOB_BASE_FEE_SLOT>>]
        l1_fee_scalars ==
            to_be_bytes(db.storage[<<L1_BLOCK_CONTRACT, ECOTONE_L1_FEE_SCALARS_SLOT>>])
        l1_base_fee_scalar ==
            from_be_slice(Slice(l1_fee_scalars, BASE_FEE_SCALAR_OFFSET,
                                BASE_FEE_SCALAR_OFFSET + 4))
        l1_blob_base_fee_scalar ==
            from_be_slice(Slice(l1_fee_scalars, BLOB_BASE_FEE_SCALAR_OFFSET,
                                BLOB_BASE_FEE_SCALAR_OFFSET + 4))
        empty_scalars ==
            /\ is_zero(l1_blob_base_fee)
            /\ Slice(l1_fee_scalars, BASE_FEE_SCALAR_OFFSET,
                     BLOB_BASE_FEE_SCALAR_OFFSET + 4) = EMPTY_SCALARS
        pre_ecotone == ~is_enabled_in(spec_id, "ECOTONE")
        tail ==
            IF pre_ecotone
            THEN <<Storage(L1_BLOCK_CONTRACT, L1_OVERHEAD_SLOT),
                   Storage(L1_BLOCK_CONTRACT, L1_SCALAR_SLOT)>>
            ELSE <<Storage(L1_BLOCK_CONTRACT, ECOTONE_L1_BLOB_BASE_FEE_SLOT),
                   Storage(L1_BLOCK_CONTRACT, ECOTONE_L1_FEE_SCALARS_SLOT)>>
                 \o (IF empty_scalars
                     THEN <<Storage(L1_BLOCK_CONTRACT, L1_OVERHEAD_SLOT)>>
                     ELSE << >>)
        plan == head \o tail
        info ==
            IF pre_ecotone
            THEN [DefaultL1BlockInfo EXCEPT
                    !.l1_base_fee = l1_base_fee,
                    !.l1_fee_overhead = Some(l1_fee_overhead),
                    !.l1_base_fee_scalar = l1_fee_scalar,
                    !.token_ratio = Some(token_ratio)]
            ELSE [ l1_base_fee             |-> l1_base_fee,
                   l1_base_fee_scalar      |-> l1_base_fee_scalar,
                   l1_blob_base_fee        |-> Some(l1_blob_base_fee),
                   l1_blob_base_fee_scalar |-> Some(l1_blob_base_fee_scalar),
                   empty_scalars           |-> empty_scalars,
                   l1_fee_overhead         |-> bool_then(empty_scalars, l1_fee_overhead),
                   token_ratio             |-> Some(token_ratio) ]
    IN  IF db.fail_at \in 1..Len(plan)
        THEN [ok |-> FALSE, calls |-> CallLog(db, plan, db.fail_at),
              err |-> plan[db.fail_at]]
        ELSE [ok |-> TRUE, calls |-> CallLog(db, plan, Len(plan)), info |-> info]

(***************************************************************************)
(* The values the model draws from.                                        *)
(***************************************************************************)
\* Most database calls one try_fetch can make.
MaxDbCalls == 7

\* Transaction payloads of the tests of l1block.rs (a deposit, 0xFACADE,
\* 0xFA00CA00DE) and one with a leading zero byte; the inputs are their
\* prefixes of at most MaxLen bytes.
Payloads ==
    { <<127, 250, 202, 222>>, <<250, 202, 222>>, <<250, 0, 202, 0, 222>>,
      <<0, 127, 250>> }

Inputs ==
    UNION { { SubSeq(p, 1, n) : n \in 0..Min2(MaxLen, Len(p)) } : p \in Payloads }

\* Lengths the compression estimator may report.
FastlzSizes == {0, 4, 170, 171, 202}

\* The scalars slot with base-fee scalar 1000 at bytes 16..19, blob-base-fee
\* scalar 2000 at bytes 20..23, sequence number 7 and a non-zero upper half.
PackedScalars ==
    from_be_slice([i \in 1..32 |->
        CASE i = 16 -> 1
          [] i = 19 -> 3   [] i = 20 -> 232
          [] i = 23 -> 7   [] i = 24 -> 208
          [] i = 32 -> 7
          [] OTHER -> 0])

\* The scalars slot with both scalars zero and sequence number 7.
SequenceOnly == from(7)

\* The scalars slot with base-fee scalar 1000, blob-base-fee scalar 2000 and
\* every other byte zero.
ScalarsOnly ==
    from_be_slice([i \in 1..32 |->
        CASE i = 19 -> 3   [] i = 20 -> 232
          [] i = 23 -> 7   [] i = 24 -> 208
          [] OTHER -> 0])

StorageOf(base_fee, ratio, overhead, scalar, blob_fee, scalars) ==
    (<<L1_BLOCK_CONTRACT, L1_BASE_FEE_SLOT>> :> base_fee)
    @@ (<<GAS_ORACLE_CONTRACT, TOKEN_RATIO_SLOT>> :> ratio)
    @@ (<<L1_BLOCK_CONTRACT, L1_OVERHEAD_SLOT>> :> overhead)
    @@ (<<L1_BLOCK_CONTRACT, L1_SCALAR_SLOT>> :> scalar)
    @@ (<<L1_BLOCK_CONTRACT, ECOTONE_L1_BLOB_BASE_FEE_SLOT>> :> blob_fee)
    @@ (<<L1_BLOCK_CONTRACT, ECOTONE_L1_FEE_SCALARS_SLOT>> :> scalars)

Storages ==
    { StorageOf(b, r, o, from(1000), bl, fs) :
        b \in {from(1000), MAX}, r \in {ZERO, from(1000)},
        o \in {from(1000), MAX}, bl \in {ZERO, from(1000)},
        fs \in {ZERO, SequenceOnly, ScalarsOnly, PackedScalars} }

Databases == [storage : Storages, fail_at : 0..MaxDbCalls]

\* The snapshot of tests::test_calculate_tx_l1_cost_ecotone and the
\* snapshots that differ from it in one field, each with either value of
\* empty_scalars.
Baseline ==
    [ l1_base_fee             |-> from(1000),
      l1_fee_overhead         |-> Some(from(1000)),
      l1_base_fee_scalar      |-> from(1000),
      l1_blob_base_fee        |-> Some(from(1000)),
      l1_blob_base_fee_scalar |-> Some(from(1000)),
      token_ratio             |-> Some(from(1000)),
      empty_scalars           |-> FALSE ]

Literals ==
    LET one_field ==
            { Baseline,
              [Baseline EXCEPT !.l1_base_fee = MAX],
              [Baseline EXCEPT !.l1_fee_overhead = None],
              [Baseline EXCEPT !.l1_fee_overhead = Some(MAX)],
              [Baseline EXCEPT !.l1_base_fee_scalar = MAX],
              [Baseline EXCEPT !.l1_blob_base_fee = None],
              [Baseline EXCEPT !.l1_blob_base_fee = Some(MAX)],
              [Baseline EXCEPT !.l1_blob_base_fee_scalar = None],
              [Baseline EXCEPT !.token_ratio = None],
              [Baseline EXCEPT !.token_ratio = Some(MAX)] }
    IN  { [s EXCEPT !.empty_scalars = e] : s \in one_field, e \in BOOLEAN }

(***************************************************************************)
(* The state: the chain context's cached snapshot (wiring.rs, Context),    *)
(* how it was obtained, and the last call made on it with its result.      *)
(***************************************************************************)
NoFetch == [op |-> "none"]

\* The parts of the state that belong to other components: nobody reads the
\* snapshot, the journal of bvm_eth.rs has no checkpoint and no balance, and
\* the preimage cache of the client's oracle is empty.
Readers == {"r1", "r2"}

NoReaders == [r \in Readers |-> [pc |-> "idle"]]

\* The accounts of the transactions of bvm_eth.rs; Address::ZERO is the
\* recipient of a create.
Accounts == {"alice", "bob"}

ZeroAddress == "0000000000000000000000000000000000000000"

\* get_bvm_eth_balance_key: the storage key of an account's BVM_ETH balance,
\* a hash that is taken to differ for different accounts and from the key of
\* the total supply.
get_bvm_eth_balance_key(addr) == <<"balance", addr>>

bvm_eth_total_supply_key == <<"slot", 2>>

BvmEthKeys ==
    { get_bvm_eth_balance_key(a) : a \in Accounts \cup {ZeroAddress} }
    \cup {bvm_eth_total_supply_key}

NoJournal == [depth |-> 0, storage |-> [k \in BvmEthKeys |-> 0]]

NoCache == {}

NoCall == [op |-> "none"]

\* Whether a call of the cost functions reaches flz_compress_len.
ReachesFastlz(op, input, spec_id) ==
    /\ is_enabled_in(spec_id, "FJORD")
    /\ \/ op = "data_gas"
       \/ ~(input = << >> \/ Head(input) = DEPOSIT_TYPE)

\* The hardforks a call may be made under: the block's own hardfork for a
\* fetched snapshot, any hardfork for a snapshot built field by field.
CallSpecs == IF fetch.op = "try_fetch" THEN {fetch.spec_id} ELSE MantleSpecId

TypeOK ==
    /\ l1_block_info.some \in BOOLEAN
    /\ fetch.op \in {"none", "literal", "try_fetch"}
    /\ ret.op \in {"none", "data_gas", "calculate_tx_l1_cost", "get_token_ratio"}

Init ==
    /\ l1_block_info = [some |-> FALSE, val |-> DefaultL1BlockInfo]
    /\ fetch = NoFetch
    /\ ret = NoCall
    /\ readers = NoReaders
    /\ journaled_state = NoJournal
    /\ cache = NoCache

\* Block start: the handler fetches the snapshot for the block's hardfork and
\* caches it in the context; a failed fetch leaves the cache empty.
TryFetch ==
    /\ fetch = NoFetch
    /\ \E db \in Databases, spec_id \in MantleSpecId :
         LET r == try_fetch(db, spec_id)
         IN  /\ fetch' = [op |-> "try_fetch", spec_id |-> spec_id, ok |-> r.ok,
                          calls |-> r.calls,
                          err |-> IF r.ok THEN << >> ELSE <<r.err>>]
             /\ l1_block_info' = IF r.ok
                                 THEN [some |-> TRUE, val |-> r.info]
                                 ELSE l1_block_info
    /\ ret' = NoCall
    /\ UNCHANGED <<readers, journaled_state, cache>>

\* A snapshot written field by field through l1_block_info_mut, as the tests
\* build theirs.
NewSnapshot ==
    /\ fetch = NoFetch
    /\ \E info \in Literals :
         l1_block_info' = [some |-> TRUE, val |-> info]
    /\ fetch' = [op |-> "literal"]
    /\ ret' = NoCall
    /\ UNCHANGED <<readers, journaled_state, cache>>

\* What the estimator returns to a call: a length when the call reaches it;
\* a call that does not reach it is recorded with 0.
Estimates(op, input, spec_id) ==
    IF ReachesFastlz(op, input, spec_id) THEN FastlzSizes ELSE {0}

Call(op, input, spec_id, fastlz, value) ==
    [op |-> op, input |-> input, spec_id |-> spec_id, fastlz |-> fastlz,
     value |-> value]

DataGas ==
    /\ l1_block_info.some
    /\ ret = NoCall
    /\ \E input \in Inputs, spec_id \in CallSpecs :
         \E fastlz \in Estimates("data_gas", input, spec_id) :
            ret' = Call("data_gas", input, spec_id, fastlz,
                        data_gas(l1_block_info.val, input, spec_id, fastlz))
    /\ UNCHANGED <<l1_block_info, fetch, readers, journaled_state, cache>>

CalculateTxL1Cost ==
    /\ l1_block_info.some
    /\ ret = NoCall
    /\ \E input \in Inputs, spec_id \in CallSpecs :
         \E fastlz \in Estimates("calculate_tx_l1_cost", input, spec_id) :
            ret' = Call("calculate_tx_l1_cost", input, spec_id, fastlz,
                        calculate_tx_l1_cost(l1_block_info.val, input, spec_id, fastlz))
    /\ UNCHANGED <<l1_block_info, fetch, readers, journaled_state, cache>>

GetTokenRatio ==
    /\ l1_block_info.some
    /\ ret = NoCall
    /\ ret' = [op |-> "get_token_ratio", value |-> get_token_ratio(l1_block_info.val)]
    /\ UNCHANGED <<l1_block_info, fetch, readers, journaled_state, cache>>

\* The transaction is done: the snapshot stays for the next one.
NextTx ==
    /\ ret # NoCall
    /\ ret' = NoCall
    /\ UNCHANGED <<l1_block_info, fetch, readers, journaled_state, cache>>

\* Block boundary (or a fetch that failed): the cached snapshot is dropped.
NextBlock ==
    /\ fetch # NoFetch
    /\ ret = NoCall
    /\ l1_block_info' = [some |-> FALSE, val |-> DefaultL1BlockInfo]
    /\ fetch' = NoFetch
    /\ ret' = NoCall
    /\ UNCHANGED <<readers, journaled_state, cache>>

Next ==
    \/ TryFetch
    \/ NewSnapshot
    \/ DataGas
    \/ CalculateTxL1Cost
    \/ GetTokenRatio
    \/ NextTx
    \/ NextBlock

Spec == Init /\ [][Next]_vars
(***************************************************************************)
(* data_gas and tx_estimated_size_fjord as pure functions, on inputs that  *)
(* cannot be listed byte by byte: an input is given as runs of equal       *)
(* bytes, a compressed length as a number.                                 *)
(***************************************************************************)
\* Longest compressed length drawn for tx_estimated_size_fjord.
MaxFastlz == 400

U64Digits == 64 \div 8

U64MAX == << >> \o [i \in 1..U64Digits |-> Base - 1]

\* The low 64 bits of a natural number.
wrapping_u64(a) == Norm(SubSeq(a, 1, Min2(Len(a), U64Digits)))

Run(byte, count) == [byte |-> byte, count |-> count]

\* 2^60 as a digit sequence, and 2^60 - 1.
TwoTo60 == <<0, 0, 0, 0, 0, 0, 0, 16>>

\* Inputs as runs: a byte and how many times it is repeated.  A slice holds
\* up to isize::MAX = 2^63 - 1 bytes.
LongInputs ==
    { << >>,
      <<Run(0, from(3)), Run(255, from(2))>>,
      <<Run(1, BigSub(TwoTo60, from(1)))>>,
      <<Run(1, TwoTo60)>>,
      <<Run(0, MulDigit(TwoTo60, 4))>>,
      <<Run(1, TwoTo60), Run(0, from(1))>> }

\* The fold of data_gas, `acc + cost` in u64 for every byte, over runs.  The
\* sum only grows, so some addition overflows exactly when the exact sum
\* passes u64::MAX: then a build with overflow checks panics and a build
\* without them wraps.
RECURSIVE fold_run_cost(_, _, _)
fold_run_cost(runs, acc, overflow_checks) ==
    IF runs = << >> THEN [panicked |-> FALSE, val |-> acc]
    ELSE LET cost == IF Head(runs).byte = 0 THEN ZERO_BYTE_COST
                     ELSE NON_ZERO_BYTE_COST
             sum  == BigAdd(acc, MulDigit(Head(runs).count, cost))
         IN  IF BigLt(U64MAX, sum) /\ overflow_checks
             THEN [panicked |-> TRUE, val |-> ZERO]
             ELSE fold_run_cost(Tail(runs), wrapping_u64(sum), overflow_checks)

\* data_gas on an input given as runs.
data_gas_runs(self, runs, spec_id, fastlz, overflow_checks) ==
    IF is_enabled_in(spec_id, "FJORD")
    THEN [panicked |-> FALSE,
          val |-> wrapping_div(saturating_mul(tx_estimated_size_fjord(self, runs, fastlz),
                                              from(NON_ZERO_BYTE_COST)),
                               from(1000000))]
    ELSE LET folded == fold_run_cost(runs, ZERO, overflow_checks)
         IN  IF folded.panicked THEN folded
             ELSE IF ~is_enabled_in(spec_id, "REGOLITH")
             THEN [panicked |-> FALSE,
                   val |-> wrapping_add(folded.val,
                                        wrapping_mul(from(NON_ZERO_BYTE_COST), from(68)))]
             ELSE folded

\* The snapshot of L1BlockInfo::default().
GasInit ==
    /\ l1_block_info = [some |-> TRUE, val |-> DefaultL1BlockInfo]
    /\ fetch = [op |-> "literal"]
    /\ ret = NoCall
    /\ readers = NoReaders
    /\ journaled_state = NoJournal
    /\ cache = NoCache

DataGasRuns ==
    /\ l1_block_info.some
    /\ ret = NoCall
    /\ \E runs \in LongInputs, spec_id \in MantleSpecId, overflow_checks \in BOOLEAN :
         \E fastlz \in (IF is_enabled_in(spec_id, "FJORD") THEN FastlzSizes ELSE {0}) :
            LET r == data_gas_runs(l1_block_info.val, runs, spec_id, fastlz,
                                   overflow_checks)
            IN  ret' = [op |-> "data_gas_runs", runs |-> runs, spec_id |-> spec_id,
                        fastlz |-> fastlz, overflow_checks |-> overflow_checks,
                        panicked |-> r.panicked, value |-> r.val]
    /\ UNCHANGED <<l1_block_info, fetch, readers, journaled_state, cache>>

TxEstimatedSizeFjord ==
    /\ l1_block_info.some
    /\ ret = NoCall
    /\ \E fastlz \in 0..MaxFastlz :
         ret' = [op |-> "tx_estimated_size_fjord", fastlz |-> fastlz,
                 value |-> tx_estimated_size_fjord(l1_block_info.val, << >>, fastlz)]
    /\ UNCHANGED <<l1_block_info, fetch, readers, journaled_state, cache>>

GasNext ==
    \/ DataGasRuns
    \/ TxEstimatedSizeFjord
    \/ NextTx

GasSpec == GasInit /\ [][GasNext]_vars

(***************************************************************************)
(* Readers of one snapshot.  data_gas and calculate_tx_l1_cost take &self: *)
(* several transaction-execution paths may hold the snapshot at once, and  *)
(* l1_block_info_mut, which takes &mut, cannot run while they do.  A       *)
(* reader enters a call, computes on the shared snapshot, and returns.     *)
(***************************************************************************)
\* The calls a reader makes.
ReaderOps == {"data_gas", "calculate_tx_l1_cost"}

ReaderInputs == { <<250, 202, 222>>, <<250, 0, 202, 0>>, <<127, 250>> }

ReaderSpecs == {"BEDROCK", "REGOLITH", "ECOTONE", "FJORD"}

\* The snapshots the readers share.
SharedSnapshots ==
    { Baseline, [Baseline EXCEPT !.empty_scalars = TRUE],
      [Baseline EXCEPT !.l1_base_fee = MAX] }

ReadersInit ==
    /\ l1_block_info \in { [some |-> TRUE, val |-> s] : s \in SharedSnapshots }
    /\ fetch = [op |-> "literal"]
    /\ ret = NoCall
    /\ readers = NoReaders
    /\ journaled_state = NoJournal
    /\ cache = NoCache

\* The value of one call on a snapshot.
Apply(self, op, input, spec_id, fastlz) ==
    IF op = "data_gas" THEN data_gas(self, input, spec_id, fastlz)
    ELSE calculate_tx_l1_cost(self, input, spec_id, fastlz)

\* A reader borrows the snapshot and enters a call.
ReaderCall(r) ==
    /\ readers[r].pc = "idle"
    /\ \E op \in ReaderOps, input \in ReaderInputs, spec_id \in ReaderSpecs :
         \E fastlz \in (IF ReachesFastlz(op, input, spec_id) THEN {171} ELSE {0}) :
            readers' = [readers EXCEPT ![r] =
                          [pc |-> "called", op |-> op, input |-> input,
                           spec_id |-> spec_id, fastlz |-> fastlz,
                           borrowed |-> l1_block_info.val]]
    /\ UNCHANGED <<l1_block_info, fetch, ret, journaled_state, cache>>

\* A return that stores its result in the snapshot's overhead field.
ReaderReturn_caching(r) ==
    /\ readers[r].pc = "called"
    /\ LET c == readers[r]
           v == Apply(l1_block_info.val, c.op, c.input, c.spec_id, c.fastlz)
       IN  /\ readers' = [readers EXCEPT ![r] = [c EXCEPT !.pc = "returned"] @@ [value |-> v]]
           /\ l1_block_info' = [l1_block_info EXCEPT !.val.l1_fee_overhead = Some(v)]
    /\ UNCHANGED <<fetch, ret, journaled_state, cache>>

\* The call computes its value from the shared snapshot and returns it; it
\* writes nothing.
ReaderReturn(r) ==
    /\ readers[r].pc = "called"
    /\ LET c == readers[r]
           v == Apply(l1_block_info.val, c.op, c.input, c.spec_id, c.fastlz)
       IN  readers' = [readers EXCEPT ![r] = [c EXCEPT !.pc = "returned"] @@ [value |-> v]]
    /\ UNCHANGED <<l1_block_info, fetch, ret, journaled_state, cache>>

\* The reader uses the value and gives the borrow back.
ReaderDone(r) ==
    /\ readers[r].pc = "returned"
    /\ readers' = [readers EXCEPT ![r] = [pc |-> "idle"]]
    /\ UNCHANGED <<l1_block_info, fetch, ret, journaled_state, cache>>

ReadersNext ==
    \/ \E r \in Readers : ReaderCall(r)
    \/ \E r \in Readers : ReaderReturn(r)
    \/ \E r \in Readers : ReaderDone(r)

ReadersSpec == ReadersInit /\ [][ReadersNext]_vars

(***************************************************************************)
(* BVM_ETH (bvm_eth.rs): minting and transferring balances kept in the     *)
(* storage of the BVM_ETH contract, inside journal checkpoints.            *)
(***************************************************************************)
\* Greatest total supply minted, and most checkpoints left open, in a run.
MaxSupply == 2

MaxDepth == 3

\* JournaledState::checkpoint: one more checkpoint is open.
checkpoint(journal) == [journal EXCEPT !.depth = @ + 1]

\* JournaledState::checkpoint_commit: the innermost checkpoint is closed and
\* its writes are kept.
checkpoint_commit(journal) == [journal EXCEPT !.depth = @ - 1]

\* JournaledState::checkpoint_revert: the innermost checkpoint is closed and
\* the storage is what it was when it was opened.
checkpoint_revert(journal, before) ==
    [depth |-> journal.depth - 1, storage |-> before.storage]

\* Context::sstore.
sstore(journal, key, value) == [journal EXCEPT !.storage[key] = value]

\* The database calls of mint_bvm_eth (sload and sstore of the balance, sload
\* and sstore of the total supply) and of transfer_bvm_eth (two sloads, two
\* sstores); fail_at is the call that fails, 0 when none does.
BvmCalls == 2 + 2

BvmInit ==
    /\ l1_block_info = [some |-> FALSE, val |-> DefaultL1BlockInfo]
    /\ fetch = NoFetch
    /\ ret = NoCall
    /\ readers = NoReaders
    /\ journaled_state = NoJournal
    /\ cache = NoCache

Returned(op, caller, to, eth_value, depth, logged) ==
    [op |-> op, outcome |-> "returned", from |-> caller, to |-> to,
     eth_value |-> eth_value, depth_before |-> depth, logged |-> logged]

Panicked(op, caller, to, eth_value, depth) ==
    [op |-> op, outcome |-> "panicked", from |-> caller, to |-> to,
     eth_value |-> eth_value, depth_before |-> depth, logged |-> FALSE]

\* mint_bvm_eth for the caller.  A failed sload, and a failed call of
\* add_bvm_eth_total_supply, panic in unwrap(); a failed first sstore reverts
\* the checkpoint and returns.
MintBvmEth ==
    /\ ret = NoCall
    /\ journaled_state.depth < MaxDepth
    /\ \E caller \in Accounts, eth_value \in 0..MaxSupply, fail_at \in 0..BvmCalls :
         /\ journaled_state.storage[bvm_eth_total_supply_key] + eth_value <= MaxSupply
         /\ LET before == journaled_state
                opened == checkpoint(before)
                key    == get_bvm_eth_balance_key(caller)
                value  == opened.storage[key] + eth_value
                stored == sstore(opened, key, value)
                supply == sstore(stored, bvm_eth_total_supply_key,
                                 stored.storage[bvm_eth_total_supply_key] + eth_value)
            IN  CASE fail_at = 1 ->
                       /\ journaled_state' = opened
                       /\ ret' = Panicked("mint_bvm_eth", caller, caller, eth_value, before.depth)
                  [] fail_at = 2 ->
                       /\ journaled_state' = checkpoint_revert(opened, before)
                       /\ ret' = Returned("mint_bvm_eth", caller, caller, eth_value,
                                          before.depth, FALSE)
                  [] fail_at \in {3, 4} ->
                       /\ journaled_state' = stored
                       /\ ret' = Panicked("mint_bvm_eth", caller, caller, eth_value, before.depth)
                  [] OTHER ->
                       /\ journaled_state' = checkpoint_commit(supply)
                       /\ ret' = Returned("mint_bvm_eth", caller, caller, eth_value,
                                          before.depth, TRUE)
    /\ UNCHANGED <<l1_block_info, fetch, readers, cache>>

\* transfer_bvm_eth from the caller to the transaction's target.  The two
\* early returns leave the function with the checkpoint still open; every
\* database call is followed by unwrap().
TransferBvmEth ==
    /\ ret = NoCall
    /\ journaled_state.depth < MaxDepth
    /\ \E caller \in Accounts, transact_to \in Accounts \cup {"Create"},
          eth_value \in 0..MaxSupply, fail_at \in 0..BvmCalls :
         LET before == journaled_state
             opened == checkpoint(before)
             to == IF transact_to = "Create" THEN ZeroAddress ELSE transact_to
             from_key == get_bvm_eth_balance_key(caller)
             to_key == get_bvm_eth_balance_key(to)
             from_amount == opened.storage[from_key]
             to_amount == opened.storage[to_key]
             debited == sstore(opened, from_key, from_amount - eth_value)
             credited == sstore(debited, to_key, to_amount + eth_value)
         IN  IF caller = to
             THEN /\ journaled_state' = opened
                  /\ ret' = Returned("transfer_bvm_eth", caller, to, eth_value,
                                     before.depth, FALSE)
             ELSE IF fail_at \in {1, 2}
             THEN /\ journaled_state' = opened
                  /\ ret' = Panicked("transfer_bvm_eth", caller, to, eth_value, before.depth)
             ELSE IF from_amount < eth_value
             THEN /\ journaled_state' = opened
                  /\ ret' = Returned("transfer_bvm_eth", caller, to, eth_value,
                                     before.depth, FALSE)
             ELSE IF fail_at = 3
             THEN /\ journaled_state' = opened
                  /\ ret' = Panicked("transfer_bvm_eth", caller, to, eth_value, before.depth)
             ELSE IF fail_at = 4
             THEN /\ journaled_state' = debited
                  /\ ret' = Panicked("transfer_bvm_eth", caller, to, eth_value, before.depth)
             ELSE /\ journaled_state' = checkpoint_commit(credited)
                  /\ ret' = Returned("transfer_bvm_eth", caller, to, eth_value,
                                     before.depth, TRUE)
    /\ UNCHANGED <<l1_block_info, fetch, readers, cache>>

\* The function returned to the handler, which goes on; a panic ends the run.
BvmReturn ==
    /\ ret # NoCall
    /\ ret.outcome = "returned"
    /\ ret' = NoCall
    /\ UNCHANGED <<l1_block_info, fetch, readers, journaled_state, cache>>

BvmNext ==
    \/ MintBvmEth
    \/ TransferBvmEth
    \/ BvmReturn

BvmSpec == BvmInit /\ [][BvmNext]_vars

(***************************************************************************)
(* The client's preimage oracle (examples/client, oracle/mod.rs): write    *)
(* takes a hint "<hint_type> <hex data>", asks the provider and stores     *)
(* what it gets in the cache.  A hint is its type and the length of its    *)
(* decoded data; a cache entry is named by the hint type it came from.     *)
(***************************************************************************)
\* enum HintType.
HintType ==
    { "L2BlockHeader", "L2Transactions", "L2Code", "StartingL2Output",
      "L2StateNode", "L2AccountProof", "L2AccountStorageProof" }

\* Lengths of the decoded hint data, around 8, 28, 32 and 60.
HintLengths == {0, 7, 8, 27, 28, 29, 31, 32, 33, 59, 60, 61}

\* What the provider answers to the request of a hint.
ProviderAnswers == {"ok", "error"}

\* utils::parse_hint: a hint that is not two words, names no hint type or
\* carries no hex is an error; otherwise the type and the decoded data.
parse_hint(hint) ==
    IF hint.well_formed
    THEN [ok |-> TRUE, hint_type |-> hint.hint_type, len |-> hint.len]
    ELSE [ok |-> FALSE, hint_type |-> hint.hint_type, len |-> hint.len]

\* hint_data.as_ref().try_into() to B256: an error unless the data is 32
\* bytes.  The length test before it builds a string and drops it.
to_b256(len) == len = 32

\* write for L2BlockHeader, L2Transactions, L2Code and L2StateNode.
write_hash_keyed(hint_type, len, answer, kv) ==
    IF ~to_b256(len)
    THEN [outcome |-> "err", cache |-> kv]
    ELSE IF answer = "error"
    THEN [outcome |-> "err", cache |-> kv]
    ELSE [outcome |-> "ok", cache |-> kv \cup {hint_type}]

\* write for L2AccountProof: hint_data[..8] and hint_data[8..28] panic on
\* data shorter than 28 bytes, and bytes after the 28th are not looked at.
write_account_proof(len, answer, kv) ==
    IF len < 8 \/ len < 28
    THEN [outcome |-> "panic", cache |-> kv]
    ELSE IF answer = "error"
    THEN [outcome |-> "err", cache |-> kv]
    ELSE [outcome |-> "ok", cache |-> kv \cup {"L2AccountProof"}]

\* write for L2AccountStorageProof: as for L2AccountProof, and
\* B256::from_slice(&hint_data[28..]) panics unless 32 bytes are left.
write_account_storage_proof(len, answer, kv) ==
    IF len < 8 \/ len < 28 \/ len - 28 # 32
    THEN [outcome |-> "panic", cache |-> kv]
    ELSE IF answer = "error"
    THEN [outcome |-> "err", cache |-> kv]
    ELSE [outcome |-> "ok", cache |-> kv \cup {"L2AccountStorageProof"}]

\* HintWriterClient::write.
write(hint, answer, kv) ==
    LET parsed == parse_hint(hint)
    IN  IF ~parsed.ok THEN [outcome |-> "err", cache |-> kv]
        ELSE CASE parsed.hint_type = "StartingL2Output" ->
                    [outcome |-> "panic", cache |-> kv]
               [] parsed.hint_type = "L2AccountProof" ->
                    write_account_proof(parsed.len, answer, kv)
               [] parsed.hint_type = "L2AccountStorageProof" ->
                    write_account_storage_proof(parsed.len, answer, kv)
               [] OTHER ->
                    write_hash_keyed(parsed.hint_type, parsed.len, answer, kv)

Hints == [well_formed : BOOLEAN, hint_type : HintType, len : HintLengths]

OracleInit ==
    /\ l1_block_info = [some |-> FALSE, val |-> DefaultL1BlockInfo]
    /\ fetch = NoFetch
    /\ ret = NoCall
    /\ readers = NoReaders
    /\ journaled_state = NoJournal
    /\ cache = NoCache

Write ==
    /\ ret = NoCall
    /\ \E hint \in Hints, answer \in ProviderAnswers :
         LET r == write(hint, answer, cache)
         IN  /\ cache' = r.cache
             /\ ret' = [op |-> "write", hint |-> hint, answer |-> answer,
                        outcome |-> r.outcome, cache_before |-> cache]
    /\ UNCHANGED <<l1_block_info, fetch, readers, journaled_state>>

\* The caller has the result (or the task that panicked is gone) and the
\* oracle, shared behind Arc, takes the next hint.
NextHint ==
    /\ ret # NoCall
    /\ ret' = NoCall
    /\ UNCHANGED <<l1_block_info, fetch, readers, journaled_state, cache>>

OracleNext ==
    \/ Write
    \/ NextHint

OracleSpec == OracleInit /\ [][OracleNext]_vars

(***************************************************************************)
(* The conversions of MantleSpecId (spec.rs).  A generic identifier, a     *)
(* variant of revm's SpecId, is written "SpecId::" and its name.           *)
(***************************************************************************)
\* The variants of SpecId, which From<SpecId> for MantleSpecId matches
\* exhaustively.
SpecId ==
    { "SpecId::FRONTIER", "SpecId::FRONTIER_THAWING", "SpecId::HOMESTEAD",
      "SpecId::DAO_FORK", "SpecId::TANGERINE", "SpecId::SPURIOUS_DRAGON",
      "SpecId::BYZANTIUM", "SpecId::CONSTANTINOPLE", "SpecId::PETERSBURG",
      "SpecId::ISTANBUL", "SpecId::MUIR_GLACIER", "SpecId::BERLIN",
      "SpecId::LONDON", "SpecId::ARROW_GLACIER", "SpecId::GRAY_GLACIER",
      "SpecId::MERGE", "SpecId::SHANGHAI", "SpecId::CANCUN", "SpecId::PRAGUE",
      "SpecId::PRAGUE_EOF", "SpecId::LATEST" }

\* try_from_u8 that knows no discriminant above 25.
try_from_u8_without_latest(spec_id) ==
    IF spec_id <= 25
    THEN [some |-> TRUE, val |-> CHOOSE v \in MantleSpecId : Ordinal[v] = spec_id]
    ELSE [some |-> FALSE, val |-> "LATEST"]

\* enumn::N: the variant whose discriminant is spec_id, if there is one.
try_from_u8(spec_id) ==
    IF \E v \in MantleSpecId : Ordinal[v] = spec_id
    THEN [some |-> TRUE, val |-> CHOOSE v \in MantleSpecId : Ordinal[v] = spec_id]
    ELSE [some |-> FALSE, val |-> "LATEST"]

\* into_eth_spec_id with CANYON among the hardforks of generic CANCUN.
into_eth_spec_id_canyon_as_cancun(self) ==
    CASE self = "FRONTIER" -> "SpecId::FRONTIER"
      [] self = "FRONTIER_THAWING" -> "SpecId::FRONTIER_THAWING"
      [] self = "HOMESTEAD" -> "SpecId::HOMESTEAD"
      [] self = "DAO_FORK" -> "SpecId::DAO_FORK"
      [] self = "TANGERINE" -> "SpecId::TANGERINE"
      [] self = "SPURIOUS_DRAGON" -> "SpecId::SPURIOUS_DRAGON"
      [] self = "BYZANTIUM" -> "SpecId::BYZANTIUM"
      [] self = "CONSTANTINOPLE" -> "SpecId::CONSTANTINOPLE"
      [] self = "PETERSBURG" -> "SpecId::PETERSBURG"
      [] self = "ISTANBUL" -> "SpecId::ISTANBUL"
      [] self = "MUIR_GLACIER" -> "SpecId::MUIR_GLACIER"
      [] self = "BERLIN" -> "SpecId::BERLIN"
      [] self = "LONDON" -> "SpecId::LONDON"
      [] self = "ARROW_GLACIER" -> "SpecId::ARROW_GLACIER"
      [] self = "GRAY_GLACIER" -> "SpecId::GRAY_GLACIER"
      [] self \in {"MERGE", "BEDROCK", "REGOLITH"} -> "SpecId::MERGE"
      [] self \in {"SHANGHAI"} -> "SpecId::SHANGHAI"
      [] self \in {"CANYON", "CANCUN", "ECOTONE", "FJORD", "GRANITE"} -> "SpecId::CANCUN"
      [] self = "PRAGUE" -> "SpecId::PRAGUE"
      [] self = "PRAGUE_EOF" -> "SpecId::PRAGUE_EOF"
      [] self = "LATEST" -> "SpecId::LATEST"

into_eth_spec_id(self) ==
    CASE self = "FRONTIER" -> "SpecId::FRONTIER"
      [] self = "FRONTIER_THAWING" -> "SpecId::FRONTIER_THAWING"
      [] self = "HOMESTEAD" -> "SpecId::HOMESTEAD"
      [] self = "DAO_FORK" -> "SpecId::DAO_FORK"
      [] self = "TANGERINE" -> "SpecId::TANGERINE"
      [] self = "SPURIOUS_DRAGON" -> "SpecId::SPURIOUS_DRAGON"
      [] self = "BYZANTIUM" -> "SpecId::BYZANTIUM"
      [] self = "CONSTANTINOPLE" -> "SpecId::CONSTANTINOPLE"
      [] self = "PETERSBURG" -> "SpecId::PETERSBURG"
      [] self = "ISTANBUL" -> "SpecId::ISTANBUL"
      [] self = "MUIR_GLACIER" -> "SpecId::MUIR_GLACIER"
      [] self = "BERLIN" -> "SpecId::BERLIN"
      [] self = "LONDON" -> "SpecId::LONDON"
      [] self = "ARROW_GLACIER" -> "SpecId::ARROW_GLACIER"
      [] self = "GRAY_GLACIER" -> "SpecId::GRAY_GLACIER"
      [] self \in {"MERGE", "BEDROCK", "REGOLITH"} -> "SpecId::MERGE"
      [] self \in {"SHANGHAI", "CANYON"} -> "SpecId::SHANGHAI"
      [] self \in {"CANCUN", "ECOTONE", "FJORD", "GRANITE"} -> "SpecId::CANCUN"
      [] self = "PRAGUE" -> "SpecId::PRAGUE"
      [] self = "PRAGUE_EOF" -> "SpecId::PRAGUE_EOF"
      [] self = "LATEST" -> "SpecId::LATEST"

\* impl From<MantleSpecId> for SpecId.
SpecId_from(value) == into_eth_spec_id(value)

\* From<SpecId> giving SHANGHAI for generic MERGE.
MantleSpecId_from_merge_as_shanghai(value) ==
    CASE value = "SpecId::FRONTIER" -> "FRONTIER"
      [] value = "SpecId::FRONTIER_THAWING" -> "FRONTIER_THAWING"
      [] value = "SpecId::HOMESTEAD" -> "HOMESTEAD"
      [] value = "SpecId::DAO_FORK" -> "DAO_FORK"
      [] value = "SpecId::TANGERINE" -> "TANGERINE"
      [] value = "SpecId::SPURIOUS_DRAGON" -> "SPURIOUS_DRAGON"
      [] value = "SpecId::BYZANTIUM" -> "BYZANTIUM"
      [] value = "SpecId::CONSTANTINOPLE" -> "CONSTANTINOPLE"
      [] value = "SpecId::PETERSBURG" -> "PETERSBURG"
      [] value = "SpecId::ISTANBUL" -> "ISTANBUL"
      [] value = "SpecId::MUIR_GLACIER" -> "MUIR_GLACIER"
      [] value = "SpecId::BERLIN" -> "BERLIN"
      [] value = "SpecId::LONDON" -> "LONDON"
      [] value = "SpecId::ARROW_GLACIER" -> "ARROW_GLACIER"
      [] value = "SpecId::GRAY_GLACIER" -> "GRAY_GLACIER"
      [] value = "SpecId::MERGE" -> "SHANGHAI"
      [] value = "SpecId::SHANGHAI" -> "SHANGHAI"
      [] value = "SpecId::CANCUN" -> "CANCUN"
      [] value = "SpecId::PRAGUE" -> "PRAGUE"
      [] value = "SpecId::PRAGUE_EOF" -> "PRAGUE_EOF"
      [] value = "SpecId::LATEST" -> "LATEST"

\* impl From<SpecId> for MantleSpecId.
MantleSpecId_from(value) ==
    CASE value = "SpecId::FRONTIER" -> "FRONTIER"
      [] value = "SpecId::FRONTIER_THAWING" -> "FRONTIER_THAWING"
      [] value = "SpecId::HOMESTEAD" -> "HOMESTEAD"
      [] value = "SpecId::DAO_FORK" -> "DAO_FORK"
      [] value = "SpecId::TANGERINE" -> "TANGERINE"
      [] value = "SpecId::SPURIOUS_DRAGON" -> "SPURIOUS_DRAGON"
      [] value = "SpecId::BYZANTIUM" -> "BYZANTIUM"
      [] value = "SpecId::CONSTANTINOPLE" -> "CONSTANTINOPLE"
      [] value = "SpecId::PETERSBURG" -> "PETERSBURG"
      [] value = "SpecId::ISTANBUL" -> "ISTANBUL"
      [] value = "SpecId::MUIR_GLACIER" -> "MUIR_GLACIER"
      [] value = "SpecId::BERLIN" -> "BERLIN"
      [] value = "SpecId::LONDON" -> "LONDON"
      [] value = "SpecId::ARROW_GLACIER" -> "ARROW_GLACIER"
      [] value = "SpecId::GRAY_GLACIER" -> "GRAY_GLACIER"
      [] value = "SpecId::MERGE" -> "MERGE"
      [] value = "SpecId::SHANGHAI" -> "SHANGHAI"
      [] value = "SpecId::CANCUN" -> "CANCUN"
      [] value = "SpecId::PRAGUE" -> "PRAGUE"
      [] value = "SpecId::PRAGUE_EOF" -> "PRAGUE_EOF"
      [] value = "SpecId::LATEST" -> "LATEST"

\* mod id: the names of the Mantle hardforks.
id ==
    [ BEDROCK |-> "Bedrock", REGOLITH |-> "Regolith", CANYON |-> "Canyon",
      ECOTONE |-> "Ecotone", FJORD |-> "Fjord", GRANITE |-> "Granite" ]

\* mod id: the names re-exported from revm::specification::hardfork::id.
eth_id ==
    [ FRONTIER |-> "Frontier",
      FRONTIER_THAWING |-> "Frontier Thawing",
      HOMESTEAD |-> "Homestead",
      DAO_FORK |-> "DAO Fork",
      TANGERINE |-> "Tangerine",
      SPURIOUS_DRAGON |-> "Spurious",
      BYZANTIUM |-> "Byzantium",
      CONSTANTINOPLE |-> "Constantinople",
      PETERSBURG |-> "Petersburg",
      ISTANBUL |-> "Istanbul",
      MUIR_GLACIER |-> "MuirGlacier",
      BERLIN |-> "Berlin",
      LONDON |-> "London",
      ARROW_GLACIER |-> "Arrow Glacier",
      GRAY_GLACIER |-> "Gray Glacier",
      MERGE |-> "Merge",
      SHANGHAI |-> "Shanghai",
      CANCUN |-> "Cancun",
      PRAGUE |-> "Prague",
      PRAGUE_EOF |-> "PragueEOF",
      LATEST |-> "Latest" ]

\* From<&str> giving FRONTIER for a name it does not know.
MantleSpecId_from_str_frontier(name) ==
    CASE name = eth_id.FRONTIER -> "FRONTIER"
      [] name = eth_id.FRONTIER_THAWING -> "FRONTIER_THAWING"
      [] name = eth_id.HOMESTEAD -> "HOMESTEAD"
      [] name = eth_id.DAO_FORK -> "DAO_FORK"
      [] name = eth_id.TANGERINE -> "TANGERINE"
      [] name = eth_id.SPURIOUS_DRAGON -> "SPURIOUS_DRAGON"
      [] name = eth_id.BYZANTIUM -> "BYZANTIUM"
      [] name = eth_id.CONSTANTINOPLE -> "CONSTANTINOPLE"
      [] name = eth_id.PETERSBURG -> "PETERSBURG"
      [] name = eth_id.ISTANBUL -> "ISTANBUL"
      [] name = eth_id.MUIR_GLACIER -> "MUIR_GLACIER"
      [] name = eth_id.BERLIN -> "BERLIN"
      [] name = eth_id.LONDON -> "LONDON"
      [] name = eth_id.ARROW_GLACIER -> "ARROW_GLACIER"
      [] name = eth_id.GRAY_GLACIER -> "GRAY_GLACIER"
      [] name = eth_id.MERGE -> "MERGE"
      [] name = eth_id.SHANGHAI -> "SHANGHAI"
      [] name = eth_id.CANCUN -> "CANCUN"
      [] name = eth_id.PRAGUE -> "PRAGUE"
      [] name = eth_id.PRAGUE_EOF -> "PRAGUE_EOF"
      [] name = id.BEDROCK -> "BEDROCK"
      [] name = id.REGOLITH -> "REGOLITH"
      [] name = id.CANYON -> "CANYON"
      [] name = id.ECOTONE -> "ECOTONE"
      [] name = id.FJORD -> "FJORD"
      [] name = eth_id.LATEST -> "LATEST"
      [] OTHER -> "FRONTIER"

\* impl From<&str> for MantleSpecId.
MantleSpecId_from_str(name) ==
    CASE name = eth_id.FRONTIER -> "FRONTIER"
      [] name = eth_id.FRONTIER_THAWING -> "FRONTIER_THAWING"
      [] name = eth_id.HOMESTEAD -> "HOMESTEAD"
      [] name = eth_id.DAO_FORK -> "DAO_FORK"
      [] name = eth_id.TANGERINE -> "TANGERINE"
      [] name = eth_id.SPURIOUS_DRAGON -> "SPURIOUS_DRAGON"
      [] name = eth_id.BYZANTIUM -> "BYZANTIUM"
      [] name = eth_id.CONSTANTINOPLE -> "CONSTANTINOPLE"
      [] name = eth_id.PETERSBURG -> "PETERSBURG"
      [] name = eth_id.ISTANBUL -> "ISTANBUL"
      [] name = eth_id.MUIR_GLACIER -> "MUIR_GLACIER"
      [] name = eth_id.BERLIN -> "BERLIN"
      [] name = eth_id.LONDON -> "LONDON"
      [] name = eth_id.ARROW_GLACIER -> "ARROW_GLACIER"
      [] name = eth_id.GRAY_GLACIER -> "GRAY_GLACIER"
      [] name = eth_id.MERGE -> "MERGE"
      [] name = eth_id.SHANGHAI -> "SHANGHAI"
      [] name = eth_id.CANCUN -> "CANCUN"
      [] name = eth_id.PRAGUE -> "PRAGUE"
      [] name = eth_id.PRAGUE_EOF -> "PRAGUE_EOF"
      [] name = id.BEDROCK -> "BEDROCK"
      [] name = id.REGOLITH -> "REGOLITH"
      [] name = id.CANYON -> "CANYON"
      [] name = id.ECOTONE -> "ECOTONE"
      [] name = id.FJORD -> "FJORD"
      [] name = eth_id.LATEST -> "LATEST"
      [] OTHER -> "LATEST"

\* The types the spec! macro defines, each with its MANTLE_SPEC_ID.
MANTLE_SPEC_ID ==
    [ FrontierSpec |-> "FRONTIER", HomesteadSpec |-> "HOMESTEAD",
      TangerineSpec |-> "TANGERINE", SpuriousDragonSpec |-> "SPURIOUS_DRAGON",
      ByzantiumSpec |-> "BYZANTIUM", PetersburgSpec |-> "PETERSBURG",
      IstanbulSpec |-> "ISTANBUL", BerlinSpec |-> "BERLIN",
      LondonSpec |-> "LONDON", MergeSpec |-> "MERGE",
      ShanghaiSpec |-> "SHANGHAI", CancunSpec |-> "CANCUN",
      PragueSpec |-> "PRAGUE", PragueEofSpec |-> "PRAGUE_EOF",
      LatestSpec |-> "LATEST", BedrockSpec |-> "BEDROCK",
      RegolithSpec |-> "REGOLITH", CanyonSpec |-> "CANYON",
      EcotoneSpec |-> "ECOTONE", FjordSpec |-> "FJORD",
      GraniteSpec |-> "GRANITE" ]

\* impl From<SpecId> for &'static str, of revm: the name of mod id.
SpecId_into_str(spec_id) ==
    CASE spec_id = "SpecId::FRONTIER" -> eth_id.FRONTIER
      [] spec_id = "SpecId::FRONTIER_THAWING" -> eth_id.FRONTIER_THAWING
      [] spec_id = "SpecId::HOMESTEAD" -> eth_id.HOMESTEAD
      [] spec_id = "SpecId::DAO_FORK" -> eth_id.DAO_FORK
      [] spec_id = "SpecId::TANGERINE" -> eth_id.TANGERINE
      [] spec_id = "SpecId::SPURIOUS_DRAGON" -> eth_id.SPURIOUS_DRAGON
      [] spec_id = "SpecId::BYZANTIUM" -> eth_id.BYZANTIUM
      [] spec_id = "SpecId::CONSTANTINOPLE" -> eth_id.CONSTANTINOPLE
      [] spec_id = "SpecId::PETERSBURG" -> eth_id.PETERSBURG
      [] spec_id = "SpecId::ISTANBUL" -> eth_id.ISTANBUL
      [] spec_id = "SpecId::MUIR_GLACIER" -> eth_id.MUIR_GLACIER
      [] spec_id = "SpecId::BERLIN" -> eth_id.BERLIN
      [] spec_id = "SpecId::LONDON" -> eth_id.LONDON
      [] spec_id = "SpecId::ARROW_GLACIER" -> eth_id.ARROW_GLACIER
      [] spec_id = "SpecId::GRAY_GLACIER" -> eth_id.GRAY_GLACIER
      [] spec_id = "SpecId::MERGE" -> eth_id.MERGE
      [] spec_id = "SpecId::SHANGHAI" -> eth_id.SHANGHAI
      [] spec_id = "SpecId::CANCUN" -> eth_id.CANCUN
      [] spec_id = "SpecId::PRAGUE" -> eth_id.PRAGUE
      [] spec_id = "SpecId::PRAGUE_EOF" -> eth_id.PRAGUE_EOF
      [] spec_id = "SpecId::LATEST" -> eth_id.LATEST

\* impl From<MantleSpecId> for &'static str.
MantleSpecId_into_str(value) ==
    CASE value = "BEDROCK" -> id.BEDROCK
      [] value = "REGOLITH" -> id.REGOLITH
      [] value = "CANYON" -> id.CANYON
      [] value = "ECOTONE" -> id.ECOTONE
      [] value = "FJORD" -> id.FJORD
      [] value = "GRANITE" -> id.GRANITE
      [] value = "LATEST" -> eth_id.LATEST
      [] OTHER -> SpecId_into_str(into_eth_spec_id(value))

\* mantle_spec_to_generic! running GRANITE as FjordSpec.
mantle_spec_to_generic_granite_as_fjord(spec_id) ==
    CASE spec_id = "FRONTIER" -> "FrontierSpec"
      [] spec_id = "FRONTIER_THAWING" -> "FrontierSpec"
      [] spec_id = "HOMESTEAD" -> "HomesteadSpec"
      [] spec_id = "DAO_FORK" -> "HomesteadSpec"
      [] spec_id = "TANGERINE" -> "TangerineSpec"
      [] spec_id = "SPURIOUS_DRAGON" -> "SpuriousDragonSpec"
      [] spec_id = "BYZANTIUM" -> "ByzantiumSpec"
      [] spec_id = "PETERSBURG" -> "PetersburgSpec"
      [] spec_id = "CONSTANTINOPLE" -> "PetersburgSpec"
      [] spec_id = "ISTANBUL" -> "IstanbulSpec"
      [] spec_id = "MUIR_GLACIER" -> "IstanbulSpec"
      [] spec_id = "BERLIN" -> "BerlinSpec"
      [] spec_id = "LONDON" -> "LondonSpec"
      [] spec_id = "ARROW_GLACIER" -> "LondonSpec"
      [] spec_id = "GRAY_GLACIER" -> "LondonSpec"
      [] spec_id = "MERGE" -> "MergeSpec"
      [] spec_id = "SHANGHAI" -> "ShanghaiSpec"
      [] spec_id = "CANCUN" -> "CancunSpec"
      [] spec_id = "LATEST" -> "LatestSpec"
      [] spec_id = "PRAGUE" -> "PragueSpec"
      [] spec_id = "PRAGUE_EOF" -> "PragueEofSpec"
      [] spec_id = "BEDROCK" -> "BedrockSpec"
      [] spec_id = "REGOLITH" -> "RegolithSpec"
      [] spec_id = "CANYON" -> "CanyonSpec"
      [] spec_id = "GRANITE" -> "FjordSpec"
      [] spec_id = "ECOTONE" -> "EcotoneSpec"
      [] spec_id = "FJORD" -> "FjordSpec"

\* mantle_spec_to_generic!: the type bound to SPEC for a hardfork.
mantle_spec_to_generic(spec_id) ==
    CASE spec_id = "FRONTIER" -> "FrontierSpec"
      [] spec_id = "FRONTIER_THAWING" -> "FrontierSpec"
      [] spec_id = "HOMESTEAD" -> "HomesteadSpec"
      [] spec_id = "DAO_FORK" -> "HomesteadSpec"
      [] spec_id = "TANGERINE" -> "TangerineSpec"
      [] spec_id = "SPURIOUS_DRAGON" -> "SpuriousDragonSpec"
      [] spec_id = "BYZANTIUM" -> "ByzantiumSpec"
      [] spec_id = "PETERSBURG" -> "PetersburgSpec"
      [] spec_id = "CONSTANTINOPLE" -> "PetersburgSpec"
      [] spec_id = "ISTANBUL" -> "IstanbulSpec"
      [] spec_id = "MUIR_GLACIER" -> "IstanbulSpec"
      [] spec_id = "BERLIN" -> "BerlinSpec"
      [] spec_id = "LONDON" -> "LondonSpec"
      [] spec_id = "ARROW_GLACIER" -> "LondonSpec"
      [] spec_id = "GRAY_GLACIER" -> "LondonSpec"
      [] spec_id = "MERGE" -> "MergeSpec"
      [] spec_id = "SHANGHAI" -> "ShanghaiSpec"
      [] spec_id = "CANCUN" -> "CancunSpec"
      [] spec_id = "LATEST" -> "LatestSpec"
      [] spec_id = "PRAGUE" -> "PragueSpec"
      [] spec_id = "PRAGUE_EOF" -> "PragueEofSpec"
      [] spec_id = "BEDROCK" -> "BedrockSpec"
      [] spec_id = "REGOLITH" -> "RegolithSpec"
      [] spec_id = "CANYON" -> "CanyonSpec"
      [] spec_id = "GRANITE" -> "GraniteSpec"
      [] spec_id = "ECOTONE" -> "EcotoneSpec"
      [] spec_id = "FJORD" -> "FjordSpec"

\* Spec::SPEC_ID of a type the spec! macro defines.
SPEC_ID(SPEC) == into_eth_spec_id(MANTLE_SPEC_ID[SPEC])

\* MantleSpec::mantle_enabled of the type SPEC.
mantle_enabled(SPEC, spec_id) == enabled(MANTLE_SPEC_ID[SPEC], spec_id)

(***************************************************************************)
(* The hardfork registry as a state machine: one call of a conversion or   *)
(* of a comparison at a time, recorded in ret with its arguments.  The     *)
(* registry holds no state of its own and the snapshot is not involved.    *)
(***************************************************************************)
\* The bytes a hardfork may be decoded from.
Bytes == 0..(Base - 1)

\* The names a hardfork may be looked up by: every name of mod id, and
\* strings that are none of them.
Names ==
    { id[k] : k \in DOMAIN id } \cup { eth_id[k] : k \in DOMAIN eth_id }
    \cup { "", "bedrock", "BEDROCK", "Ecotone ", "latest", "Holocene" }

IsEnabledIn ==
    /\ ret = NoCall
    /\ \E self \in MantleSpecId, other \in MantleSpecId :
         ret' = [op |-> "is_enabled_in", self |-> self, other |-> other,
                 value |-> is_enabled_in(self, other)]
    /\ UNCHANGED <<l1_block_info, fetch, readers, journaled_state, cache>>

Enabled ==
    /\ ret = NoCall
    /\ \E our \in MantleSpecId, other \in MantleSpecId :
         ret' = [op |-> "enabled", self |-> our, other |-> other,
                 value |-> enabled(our, other)]
    /\ UNCHANGED <<l1_block_info, fetch, readers, journaled_state, cache>>

MantleEnabled ==
    /\ ret = NoCall
    /\ \E SPEC \in DOMAIN MANTLE_SPEC_ID, spec_id \in MantleSpecId :
         ret' = [op |-> "mantle_enabled", SPEC |-> SPEC,
                 self |-> MANTLE_SPEC_ID[SPEC], other |-> spec_id,
                 value |-> mantle_enabled(SPEC, spec_id)]
    /\ UNCHANGED <<l1_block_info, fetch, readers, journaled_state, cache>>

IntoEthSpecId ==
    /\ ret = NoCall
    /\ \E value \in MantleSpecId :
         ret' = [op |-> "into_eth_spec_id", self |-> value,
                 value |-> SpecId_from(value)]
    /\ UNCHANGED <<l1_block_info, fetch, readers, journaled_state, cache>>

FromSpecId ==
    /\ ret = NoCall
    /\ \E value \in SpecId :
         ret' = [op |-> "from_spec_id", spec_id |-> value,
                 value |-> MantleSpecId_from(value)]
    /\ UNCHANGED <<l1_block_info, fetch, readers, journaled_state, cache>>

TryFromU8 ==
    /\ ret = NoCall
    /\ \E spec_id \in Bytes :
         ret' = [op |-> "try_from_u8", spec_id |-> spec_id,
                 value |-> try_from_u8(spec_id)]
    /\ UNCHANGED <<l1_block_info, fetch, readers, journaled_state, cache>>

FromStr ==
    /\ ret = NoCall
    /\ \E name \in Names :
         ret' = [op |-> "from_str", name |-> name,
                 value |-> MantleSpecId_from_str(name)]
    /\ UNCHANGED <<l1_block_info, fetch, readers, journaled_state, cache>>

IntoStr ==
    /\ ret = NoCall
    /\ \E value \in MantleSpecId :
         ret' = [op |-> "into_str", self |-> value,
                 value |-> MantleSpecId_into_str(value)]
    /\ UNCHANGED <<l1_block_info, fetch, readers, journaled_state, cache>>

MantleSpecToGeneric ==
    /\ ret = NoCall
    /\ \E spec_id \in MantleSpecId :
         LET SPEC == mantle_spec_to_generic(spec_id)
         IN  ret' = [op |-> "mantle_spec_to_generic", spec_id |-> spec_id,
                     SPEC |-> SPEC, MANTLE_SPEC_ID |-> MANTLE_SPEC_ID[SPEC],
                     SPEC_ID |-> SPEC_ID(SPEC)]
    /\ UNCHANGED <<l1_block_info, fetch, readers, journaled_state, cache>>

RegistryNext ==
    \/ IsEnabledIn
    \/ Enabled
    \/ MantleEnabled
    \/ IntoEthSpecId
    \/ FromSpecId
    \/ TryFromU8
    \/ FromStr
    \/ IntoStr
    \/ MantleSpecToGeneric
    \/ NextTx

RegistrySpec == Init /\ [][RegistryNext]_vars

(***************************************************************************)
(* Properties.  The formulas below restate what the specification says of  *)
(* each result in exact arithmetic: a product or sum is computed without   *)
(* bound and then held at U256::MAX, and a quotient q is the floor of n/d  *)
(* when q*d <= n < (q+1)*d.                                                *)
(***************************************************************************)
info == l1_block_info.val

IsCost == ret.op = "calculate_tx_l1_cost"

IsGas == ret.op = "data_gas"

Exempt(input) == input = << >> \/ input[1] = 127

\* x held at U256::MAX.
AtMostMax(x) == IF BigLt(MAX, x) THEN MAX ELSE x

SatMul(a, b) == AtMostMax(BigMul(a, b))

SatAdd(a, b) == AtMostMax(BigAdd(a, b))

IsFloor(q, n, d) ==
    /\ BigLe(BigMul(q, d), n)
    /\ BigLt(n, BigMul(BigAdd(q, <<1>>), d))

Million == FromNat(1000000)

OrdinalOf(spec_id) == Ordinal[spec_id]

PreEcotone(spec_id) == OrdinalOf(spec_id) < OrdinalOf("ECOTONE")

EcotoneOnly(spec_id) ==
    /\ OrdinalOf(spec_id) >= OrdinalOf("ECOTONE")
    /\ OrdinalOf(spec_id) < OrdinalOf("FJORD")

FjordOn(spec_id) == OrdinalOf(spec_id) >= OrdinalOf("FJORD")

ValueOr(opt, dflt) == IF opt.some THEN opt.val ELSE dflt

\* 4 gas for each zero byte and 16 for each other byte.
ByteGas(input) ==
    4 * Cardinality({i \in 1..Len(input) : input[i] = 0})
    + 16 * Cardinality({i \in 1..Len(input) : input[i] # 0})

\* (gas + overhead_or_0) * l1_base_fee * l1_base_fee_scalar * token ratio.
BedrockProduct(self, gas) ==
    SatMul(SatMul(SatMul(SatAdd(gas, ValueOr(self.l1_fee_overhead, << >>)),
                         self.l1_base_fee),
                  self.l1_base_fee_scalar),
           ValueOr(self.token_ratio, <<1>>))

\* l1_base_fee*16*l1_base_fee_scalar + l1_blob_base_fee*l1_blob_base_fee_scalar.
FeeScaled(self) ==
    SatAdd(SatMul(SatMul(self.l1_base_fee, <<16>>), self.l1_base_fee_scalar),
           SatMul(ValueOr(self.l1_blob_base_fee, << >>),
                  ValueOr(self.l1_blob_base_fee_scalar, << >>)))

\* The legacy fee parameters and the token ratio are all 1000.
AllThousand(self) ==
    /\ self.l1_base_fee = FromNat(1000)
    /\ self.l1_fee_overhead = Some(FromNat(1000))
    /\ self.l1_base_fee_scalar = FromNat(1000)
    /\ self.token_ratio = Some(FromNat(1000))

\* Both base fees and both scalars are 1000.
AllThousandEcotone(self) ==
    /\ self.l1_base_fee = FromNat(1000)
    /\ self.l1_base_fee_scalar = FromNat(1000)
    /\ self.l1_blob_base_fee = Some(FromNat(1000))
    /\ self.l1_blob_base_fee_scalar = Some(FromNat(1000))

(***************************************************************************)
(* C1..C4: the cost of a transaction under each family of hardforks.       *)
(***************************************************************************)
\* C1: calculate_tx_l1_cost returns zero for the empty input and for every
\* input whose first byte is 0x7F, under every hardfork and every snapshot.
C1_ExemptInputCostsZero ==
    (IsCost /\ Exempt(ret.input)) => ret.value = << >>

\* A deposit with a payload, costed under LATEST on a snapshot whose base fee
\* is U256::MAX and whose empty_scalars flag is set.
C1_Witness ==
    /\ IsCost
    /\ Len(ret.input) > 1
    /\ ret.input[1] = 127
    /\ ret.spec_id = "LATEST"
    /\ info.l1_base_fee = MAX
    /\ info.empty_scalars

\* C2: before ECOTONE the cost of a non-exempt input is the floor of
\* (data_gas + overhead_or_0) * l1_base_fee * l1_base_fee_scalar * token ratio
\* over 1_000_000, each sum and product saturating; with every parameter 1000
\* the input 0xFACADE costs 1_048_000 under REGOLITH.
C2_BedrockCost ==
    (IsCost /\ ~Exempt(ret.input) /\ PreEcotone(ret.spec_id)) =>
        /\ IsFloor(ret.value,
                   BedrockProduct(info, data_gas(info, ret.input, ret.spec_id,
                                                 ret.fastlz)),
                   Million)
        /\ (/\ AllThousand(info)
            /\ ret.input = <<250, 202, 222>>
            /\ ret.spec_id = "REGOLITH") => ret.value = FromNat(1048000)

\* The example of the claim.
C2_Witness ==
    /\ IsCost
    /\ ret.spec_id = "REGOLITH"
    /\ ret.input = <<250, 202, 222>>
    /\ AllThousand(info)
    /\ ret.value = FromNat(1048000)

\* C3: from ECOTONE and before FJORD, with empty_scalars false, the cost of a
\* non-exempt input is the floor of l1_fee_scaled * data_gas over 16_000_000,
\* every operation saturating; with every parameter 1000 the input 0xFACADE
\* costs 51.
C3_EcotoneCost ==
    (IsCost /\ ~Exempt(ret.input) /\ EcotoneOnly(ret.spec_id)
        /\ ~info.empty_scalars) =>
        /\ IsFloor(ret.value,
                   SatMul(FeeScaled(info),
                          data_gas(info, ret.input, ret.spec_id, ret.fastlz)),
                   FromNat(16000000))
        /\ (AllThousandEcotone(info) /\ ret.input = <<250, 202, 222>>)
               => ret.value = FromNat(51)

\* An input whose data gas, 20, is not a multiple of 16, on the snapshot of
\* the example: 20 * 17_000_000 / 16_000_000 is 21.
C3_Witness ==
    /\ IsCost
    /\ ret.spec_id = "ECOTONE"
    /\ ret.input = <<250, 0>>
    /\ AllThousandEcotone(info)
    /\ ~info.empty_scalars
    /\ ret.value = FromNat(21)

\* C4: from FJORD on the cost of a non-exempt input is the floor of
\* tx_estimated_size_fjord * l1_fee_scaled over 10^12, before the Ecotone and
\* Bedrock formulas are considered; with every parameter 1000 it is 1700 for a
\* compressed length of 4 and 2148 for one of 202.
C4_FjordCost ==
    (IsCost /\ ~Exempt(ret.input) /\ FjordOn(ret.spec_id)) =>
        /\ IsFloor(ret.value,
                   SatMul(tx_estimated_size_fjord(info, ret.input, ret.fastlz),
                          FeeScaled(info)),
                   BigMul(Million, Million))
        /\ (AllThousandEcotone(info) /\ ret.fastlz = 4)
               => ret.value = FromNat(1700)
        /\ (AllThousandEcotone(info) /\ ret.fastlz = 202)
               => ret.value = FromNat(2148)

\* The second example, on a snapshot whose empty_scalars flag is set and under
\* a hardfork later than FJORD.
C4_Witness ==
    /\ IsCost
    /\ ret.spec_id = "GRANITE"
    /\ ~Exempt(ret.input)
    /\ AllThousandEcotone(info)
    /\ info.empty_scalars
    /\ ret.fastlz = 202
    /\ ret.value = FromNat(2148)

C6_FallbackCost ==
    (IsCost /\ ~Exempt(ret.input) /\ EcotoneOnly(ret.spec_id)
        /\ info.empty_scalars) =>
        /\ data_gas(info, ret.input, ret.spec_id, ret.fastlz)
               = FromNat(ByteGas(ret.input))
        /\ IsFloor(ret.value, BedrockProduct(info, FromNat(ByteGas(ret.input))),
                   Million)
        /\ (AllThousand(info) /\ ret.input = <<250, 202, 222>>)
               => ret.value = FromNat(1048000)

\* The example of the claim, on the snapshot of the Ecotone test with the flag
\* set.
C6_Witness ==
    /\ IsCost
    /\ ret.spec_id = "ECOTONE"
    /\ info.empty_scalars
    /\ AllThousand(info)
    /\ AllThousandEcotone(info)
    /\ ret.input = <<250, 202, 222>>
    /\ ret.value = FromNat(1048000)

(***************************************************************************)
(* C7, C8: data_gas.                                                       *)
(***************************************************************************)
\* C7: before FJORD the data gas of a non-empty input is 4 for each zero byte
\* plus 16 for each other byte, plus 1088 exactly when the hardfork is before
\* REGOLITH; the snapshot has no part in it.
C7_DataGasByBytes ==
    (IsGas /\ ret.input # << >> /\ ~FjordOn(ret.spec_id)) =>
        ret.value = FromNat(ByteGas(ret.input)
                            + (IF OrdinalOf(ret.spec_id) < OrdinalOf("REGOLITH")
                               THEN 1088 ELSE 0))

\* Two zero bytes and two others under BEDROCK: 8 + 32 + 1088.
C7_Witness ==
    /\ IsGas
    /\ ret.spec_id = "BEDROCK"
    /\ ret.input = <<250, 0, 202, 0>>
    /\ ret.value = FromNat(1128)

\* C8: from FJORD on the data gas of every input, the empty one included, is
\* the floor of tx_estimated_size_fjord * 16 over 1_000_000; it is at least
\* 1600 and does not decrease as the compressed length grows.
C8_DataGasFjord ==
    (IsGas /\ FjordOn(ret.spec_id)) =>
        /\ IsFloor(ret.value,
                   SatMul(tx_estimated_size_fjord(info, ret.input, ret.fastlz),
                          <<16>>),
                   Million)
        /\ BigLe(FromNat(1600), ret.value)
        /\ \A longer \in FastlzSizes :
             longer >= ret.fastlz =>
                BigLe(ret.value, data_gas(info, ret.input, ret.spec_id, longer))

\* The empty input, which compresses to nothing, under LATEST.
C8_Witness ==
    /\ IsGas
    /\ ret.spec_id = "LATEST"
    /\ ret.input = << >>
    /\ ret.fastlz = 0
    /\ ret.value = FromNat(1600)

(***************************************************************************)
(* C9, C10: the snapshot try_fetch returns.                                *)
(***************************************************************************)
Fetched == fetch.op = "try_fetch" /\ fetch.ok

C10_TokenRatioAtLeastOne ==
    (Fetched /\ ret.op = "get_token_ratio") =>
        /\ ret.value = ValueOr(info.token_ratio, <<1>>)
        /\ BigLe(<<1>>, ret.value)

(***************************************************************************)
(* C11..C13: what try_fetch reads and how it decodes it.                   *)
(***************************************************************************)
\* 256^k, that is 2^(8k).
Pow256(k) == ShiftBy(<<1>>, k)

\* n mod d, by the quotient.
ModOf(n, d) == BigSub(n, BigMul(BigDiv(n, d), d))

\* floor(v / 256^k) mod 256^w: the w bytes of v above its k lowest.
BytesAbove(v, k, w) == ModOf(BigDiv(v, Pow256(k)), Pow256(w))

\* The reads of storage the fetch made at (address, index).
ReadsOf(address, index) ==
    { i \in 1..Len(fetch.calls) :
        /\ fetch.calls[i].kind = "storage"
        /\ fetch.calls[i].address = address
        /\ fetch.calls[i].index = index }

\* The value the fetch read at (address, index), which it did read.
ValueRead(address, index) ==
    fetch.calls[CHOOSE i \in ReadsOf(address, index) : TRUE].value

\* A snapshot fetched under ECOTONE or later, before any call is made on it.
FetchedEcotone == Fetched /\ ~PreEcotone(fetch.spec_id) /\ ret = NoCall

\* The storage st holds what the fetch read, but for the bytes of the scalars
\* slot outside offsets 16..23.
SameButOtherBytes(st) ==
    /\ \A i \in 1..Len(fetch.calls) :
         (fetch.calls[i].kind = "storage" /\ fetch.calls[i].index # 3) =>
            st[<<fetch.calls[i].address, fetch.calls[i].index>>]
                = fetch.calls[i].value
    /\ BytesAbove(st[<<L1_BLOCK_CONTRACT, 3>>], 8, 8)
           = BytesAbove(ValueRead(L1_BLOCK_CONTRACT, 3), 8, 8)

\* C11: under ECOTONE or later l1_base_fee_scalar is floor(v / 2^96) mod 2^32
\* and l1_blob_base_fee_scalar is floor(v / 2^64) mod 2^32 of the value v of
\* scalars slot 3, and two databases that differ only in the other 24 bytes
\* of that slot give the same snapshot.
C11_ScalarsDecoded ==
    FetchedEcotone =>
        /\ info.l1_base_fee_scalar
               = BytesAbove(ValueRead(L1_BLOCK_CONTRACT, 3), 12, 4)
        /\ info.l1_blob_base_fee_scalar
               = Some(BytesAbove(ValueRead(L1_BLOCK_CONTRACT, 3), 8, 4))
        /\ \A st \in Storages :
             SameButOtherBytes(st) =>
                try_fetch([storage |-> st, fail_at |-> 0], fetch.spec_id).info
                    = info

\* A slot with a sequence number and a non-zero upper half, decoded under
\* FJORD to the scalars 1000 and 2000.
C11_Witness ==
    /\ FetchedEcotone
    /\ fetch.spec_id = "FJORD"
    /\ ValueRead(L1_BLOCK_CONTRACT, 3) = PackedScalars
    /\ ValueRead(L1_BLOCK_CONTRACT, 3) # ScalarsOnly
    /\ info.l1_base_fee_scalar = FromNat(1000)
    /\ info.l1_blob_base_fee_scalar = Some(FromNat(2000))

ReadKey(call) ==
    IF call.kind = "basic" THEN <<"basic", call.address>>
    ELSE <<"storage", call.address, call.index>>

\* C13: a failed try_fetch returns the error of the read that failed, which
\* is the last call it made; no read is made twice; a successful result
\* comes only after every read succeeded.
C13_FirstErrorEndsFetch ==
    fetch.op = "try_fetch" =>
        /\ ~fetch.ok =>
               /\ fetch.calls # << >>
               /\ ~fetch.calls[Len(fetch.calls)].ok
               /\ \A i \in 1..(Len(fetch.calls) - 1) : fetch.calls[i].ok
               /\ Len(fetch.err) = 1
               /\ ReadKey(fetch.err[1]) = ReadKey(fetch.calls[Len(fetch.calls)])
               /\ ~l1_block_info.some
        /\ fetch.ok =>
               /\ \A i \in 1..Len(fetch.calls) : fetch.calls[i].ok
               /\ fetch.err = << >>
        /\ \A i, j \in 1..Len(fetch.calls) :
               i < j => ReadKey(fetch.calls[i]) # ReadKey(fetch.calls[j])

\* A fetch under CANCUN whose third call, the read of the base fee, failed
\* after two account touches.
C13_Witness ==
    /\ fetch.op = "try_fetch"
    /\ ~fetch.ok
    /\ fetch.spec_id = "CANCUN"
    /\ Len(fetch.calls) = 3
    /\ fetch.calls[3].kind = "storage"
    /\ fetch.err = <<[kind |-> "storage", address |-> L1_BLOCK_CONTRACT, index |-> 1]>>

(***************************************************************************)
(* C20: the token ratio and the Ecotone and Fjord formulas.                *)
(***************************************************************************)
\* Token ratios a snapshot may carry.
TokenRatios == {None, Some(<< >>), Some(MAX)}

\* C20: from FJORD on, and from ECOTONE on when empty_scalars is not set, the
\* cost of an input is the same on every snapshot that differs from this one
\* only in token_ratio.
C20_TokenRatioUnused ==
    (IsCost /\ (FjordOn(ret.spec_id)
                \/ (EcotoneOnly(ret.spec_id) /\ ~info.empty_scalars))) =>
        \A ratio \in TokenRatios :
            calculate_tx_l1_cost([info EXCEPT !.token_ratio = ratio], ret.input,
                                 ret.spec_id, ret.fastlz) = ret.value

\* A non-zero cost under ECOTONE on a snapshot fetched with a token ratio of
\* zero, on which the Bedrock formula would give zero.
C20_Witness ==
    /\ IsCost
    /\ Fetched
    /\ ret.spec_id = "ECOTONE"
    /\ ~info.empty_scalars
    /\ info.token_ratio = Some(<< >>)
    /\ ret.value # << >>
    /\ calculate_tx_l1_cost_bedrock(info, ret.input, ret.spec_id, ret.fastlz) = << >>

(***************************************************************************)
(* C14..C19: the hardfork registry (under RegistrySpec).                   *)
(***************************************************************************)
IsComparison == ret.op \in {"is_enabled_in", "enabled", "mantle_enabled"}

\* C14: is_enabled_in(a, b), enabled(a, b) and mantle_enabled of a type whose
\* hardfork is a are true exactly when the ordinal of a is at least the
\* ordinal of b; so a hardfork enables itself and LATEST enables every one.
C14_EnabledIsOrdinalOrder ==
    IsComparison =>
        /\ ret.value <=> (OrdinalOf(ret.self) >= OrdinalOf(ret.other))
        /\ ret.self = ret.other => ret.value
        /\ ret.self = "LATEST" => ret.value

\* mantle_enabled of FjordSpec asked about a later hardfork, GRANITE.
C14_Witness ==
    /\ ret.op = "mantle_enabled"
    /\ ret.SPEC = "FjordSpec"
    /\ ret.other = "GRANITE"
    /\ ~ret.value

\* The hardforks in the order of their activation, LATEST last.
Chain ==
    << "FRONTIER", "FRONTIER_THAWING", "HOMESTEAD", "DAO_FORK", "TANGERINE",
       "SPURIOUS_DRAGON", "BYZANTIUM", "CONSTANTINOPLE", "PETERSBURG",
       "ISTANBUL", "MUIR_GLACIER", "BERLIN", "LONDON", "ARROW_GLACIER",
       "GRAY_GLACIER", "MERGE", "BEDROCK", "REGOLITH", "SHANGHAI", "CANYON",
       "CANCUN", "ECOTONE", "FJORD", "GRANITE", "PRAGUE", "PRAGUE_EOF",
       "LATEST" >>

PlaceOf(v) == CHOOSE i \in 1..Len(Chain) : Chain[i] = v

\* One call: does a enable b?
Enables(a, b) == ret.self = a /\ ret.other = b => ret.value

EnablesNot(a, b) == ret.self = a /\ ret.other = b => ~ret.value

\* C15: the ordinals are pairwise distinct and increase strictly along the
\* chain of activation, so that a hardfork enables exactly those at or before
\* its place in the chain: BEDROCK enables MERGE but not REGOLITH or SHANGHAI,
\* CANYON enables SHANGHAI but not CANCUN, ECOTONE enables CANCUN, FJORD
\* enables ECOTONE, and only LATEST enables LATEST.
C15_OrdinalsFollowActivation ==
    IsComparison =>
        /\ { Chain[i] : i \in 1..Len(Chain) } = MantleSpecId
        /\ \A v, w \in MantleSpecId : v # w => Ordinal[v] # Ordinal[w]
        /\ \A i, j \in 1..Len(Chain) : i < j => Ordinal[Chain[i]] < Ordinal[Chain[j]]
        /\ ret.value <=> (PlaceOf(ret.self) >= PlaceOf(ret.other))
        /\ Enables("BEDROCK", "MERGE")
        /\ EnablesNot("BEDROCK", "REGOLITH")
        /\ EnablesNot("BEDROCK", "SHANGHAI")
        /\ Enables("CANYON", "SHANGHAI")
        /\ EnablesNot("CANYON", "CANCUN")
        /\ Enables("ECOTONE", "CANCUN")
        /\ Enables("FJORD", "ECOTONE")
        /\ (ret.other = "LATEST" /\ ret.value) => ret.self = "LATEST"

\* CANYON asked about SHANGHAI, the hardfork just before it.
C15_Witness ==
    /\ ret.op = "is_enabled_in"
    /\ ret.self = "CANYON"
    /\ ret.other = "SHANGHAI"
    /\ ret.value

\* The generic identifier of the same name, for the hardforks that have one.
SameName ==
    [ FRONTIER |-> "SpecId::FRONTIER", FRONTIER_THAWING |-> "SpecId::FRONTIER_THAWING",
      HOMESTEAD |-> "SpecId::HOMESTEAD", DAO_FORK |-> "SpecId::DAO_FORK",
      TANGERINE |-> "SpecId::TANGERINE", SPURIOUS_DRAGON |-> "SpecId::SPURIOUS_DRAGON",
      BYZANTIUM |-> "SpecId::BYZANTIUM", CONSTANTINOPLE |-> "SpecId::CONSTANTINOPLE",
      PETERSBURG |-> "SpecId::PETERSBURG", ISTANBUL |-> "SpecId::ISTANBUL",
      MUIR_GLACIER |-> "SpecId::MUIR_GLACIER", BERLIN |-> "SpecId::BERLIN",
      LONDON |-> "SpecId::LONDON", ARROW_GLACIER |-> "SpecId::ARROW_GLACIER",
      GRAY_GLACIER |-> "SpecId::GRAY_GLACIER", MERGE |-> "SpecId::MERGE",
      SHANGHAI |-> "SpecId::SHANGHAI", CANCUN |-> "SpecId::CANCUN",
      PRAGUE |-> "SpecId::PRAGUE", PRAGUE_EOF |-> "SpecId::PRAGUE_EOF",
      LATEST |-> "SpecId::LATEST" ]

\* C16: the conversion to a generic identifier has a result for every
\* hardfork: generic MERGE for MERGE, BEDROCK and REGOLITH, generic SHANGHAI
\* for SHANGHAI and CANYON, generic CANCUN for CANCUN, ECOTONE, FJORD and
\* GRANITE, and the identifier of the same name for every other hardfork.
C16_GenericTable ==
    ret.op = "into_eth_spec_id" =>
        /\ ret.value \in SpecId
        /\ ret.value =
             (IF ret.self \in {"BEDROCK", "REGOLITH"} THEN "SpecId::MERGE"
              ELSE IF ret.self = "CANYON" THEN "SpecId::SHANGHAI"
              ELSE IF ret.self \in {"ECOTONE", "FJORD", "GRANITE"} THEN "SpecId::CANCUN"
              ELSE SameName[ret.self])

\* CANYON, converted to generic SHANGHAI.
C16_Witness ==
    /\ ret.op = "into_eth_spec_id"
    /\ ret.self = "CANYON"
    /\ ret.value = "SpecId::SHANGHAI"

\* C17: a generic identifier converted to its hardfork and back is itself;
\* so for a hardfork v, converting to generic and back gives a hardfork that
\* the same two conversions leave unchanged and that has the generic
\* identifier of v.
C17_GenericRoundTrip ==
    /\ ret.op = "from_spec_id" => SpecId_from(ret.value) = ret.spec_id
    /\ ret.op = "into_eth_spec_id" =>
           LET once  == MantleSpecId_from(ret.value)
               twice == MantleSpecId_from(SpecId_from(once))
           IN  /\ twice = once
               /\ SpecId_from(once) = SpecId_from(ret.self)

\* Generic MERGE, which three hardforks share, converted to its hardfork.
C17_Witness ==
    /\ ret.op = "from_spec_id"
    /\ ret.spec_id = "SpecId::MERGE"
    /\ ret.value = "MERGE"
    /\ SpecId_from("REGOLITH") = ret.spec_id

\* C18: try_from_u8(n) is Some of the hardfork of ordinal n exactly when n is
\* in 0..25 or is 255, and None for every n in 26..254.
C18_TryFromU8 ==
    ret.op = "try_from_u8" =>
        /\ ret.value.some <=> (ret.spec_id \in 0..25 \/ ret.spec_id = 255)
        /\ ret.value.some =>
               /\ ret.value.val \in MantleSpecId
               /\ Ordinal[ret.value.val] = ret.spec_id
        /\ ret.spec_id \in 26..254 => ~ret.value.some

\* The byte 255, decoded to LATEST.
C18_Witness ==
    /\ ret.op = "try_from_u8"
    /\ ret.spec_id = 255
    /\ ret.value.some
    /\ ret.value.val = "LATEST"

\* The names of mod id.
HardforkNames ==
    { id[k] : k \in DOMAIN id } \cup { eth_id[k] : k \in DOMAIN eth_id }

\* C19: the conversion of a name to a hardfork always has a result, and the
\* result for a string that is not the name of a hardfork is LATEST.
C19_UnknownNameIsLatest ==
    ret.op = "from_str" =>
        /\ ret.value \in MantleSpecId
        /\ ret.name \notin HardforkNames => ret.value = "LATEST"

\* A name that differs from a hardfork's only in case.
C19_Witness ==
    /\ ret.op = "from_str"
    /\ ret.name = "bedrock"
    /\ ret.value = "LATEST"

(***************************************************************************)
(* C21, C23: data_gas and tx_estimated_size_fjord (under GasSpec).         *)
(***************************************************************************)
\* The exact sum of the byte costs of runs, without a width.
RECURSIVE ExactByteGas(_)
ExactByteGas(runs) ==
    IF runs = << >> THEN << >>
    ELSE BigAdd(MulDigit(Head(runs).count,
                         IF Head(runs).byte = 0 THEN 4 ELSE 16),
                ExactByteGas(Tail(runs)))

\* A sum clamped at the greatest value of a width.
ClampAt(bound, n) == IF BigLt(bound, n) THEN bound ELSE n

\* C21: the additions of data_gas saturate at the maximum of their width:
\* before FJORD the result is the sum of the byte costs clamped at the u64
\* maximum, plus the 1088 surcharge before REGOLITH clamped at the U256
\* maximum, and no call panics or returns a wrapped sum.
C21_DataGasSaturates ==
    (ret.op = "data_gas_runs" /\ ~is_enabled_in(ret.spec_id, "FJORD")) =>
        /\ ~ret.panicked
        /\ ret.value =
             ClampAt(MAX,
                     BigAdd(ClampAt(U64MAX, ExactByteGas(ret.runs)),
                            IF is_enabled_in(ret.spec_id, "REGOLITH") THEN << >>
                            ELSE from(1088)))

\* C23: tx_estimated_size_fjord is the greater of 100_000_000 and the
\* compressed length times 836_500 less 42_585_600, the difference being 0
\* when the product is smaller; it is exactly 100_000_000 for every
\* compressed length up to 170 and greater for every length from 171.
C23_EstimatedSizeFloor ==
    ret.op = "tx_estimated_size_fjord" =>
        LET product    == ret.fastlz * 836500
            difference == IF product < 42585600 THEN 0 ELSE product - 42585600
        IN  /\ ret.value = FromNat(Max2(100000000, difference))
            /\ ret.fastlz <= 170 => ret.value = FromNat(100000000)
            /\ ret.fastlz >= 171 => BigLt(FromNat(100000000), ret.value)

\* The first compressed length above the floor: 171 gives 100_455_900.
C23_Witness ==
    /\ ret.op = "tx_estimated_size_fjord"
    /\ ret.fastlz = 171
    /\ ret.value = FromNat(100455900)

(***************************************************************************)
(* C22: readers of one snapshot (under ReadersSpec).                       *)
(***************************************************************************)
\* C22: calculate_tx_l1_cost and data_gas leave the snapshot as it was; with
\* readers calling them in any order and interleaving, every call returns
\* what it returns when it is the only call: the value of its input and
\* hardfork on the snapshot it was entered with.
C22_ReadersDoNotInterfere ==
    \A r \in Readers :
        /\ readers[r].pc # "idle" => l1_block_info.val = readers[r].borrowed
        /\ readers[r].pc = "returned" =>
               readers[r].value =
                   Apply(readers[r].borrowed, readers[r].op, readers[r].input,
                         readers[r].spec_id, readers[r].fastlz)

\* Two readers inside calls of different kinds at once, one already returned
\* with a cost, the other still in data_gas.
C22_Witness ==
    /\ readers["r1"].pc = "returned"
    /\ readers["r1"].op = "calculate_tx_l1_cost"
    /\ readers["r1"].value # ZERO
    /\ readers["r2"].pc = "called"
    /\ readers["r2"].op = "data_gas"

(***************************************************************************)
(* C24, C25, C28: the calls of try_fetch and what it returns (under Spec). *)
(***************************************************************************)
\* The places in the call log of the touches of an account.
TouchesOf(address) ==
    { i \in 1..Len(fetch.calls) :
        fetch.calls[i].kind = "basic" /\ fetch.calls[i].address = address }

SlotsRead ==
    { <<fetch.calls[i].address, fetch.calls[i].index>> :
        i \in { k \in 1..Len(fetch.calls) : fetch.calls[k].kind = "storage" } }

L1Attributes(slot) == <<"4200000000000000000000000000000000000015", slot>>

\* C25: a successful try_fetch reads, each once, slot 1 of the L1 block
\* account and slot 0 of the gas oracle; before ECOTONE also slots 5 and 6,
\* which become l1_fee_overhead and l1_base_fee_scalar as they are, and not
\* slots 3 or 7; from ECOTONE on also slots 7 and 3, not slot 6, and slot 5
\* exactly when empty_scalars is set.
C25_SlotsRead ==
    Fetched =>
        /\ \A i, j \in 1..Len(fetch.calls) :
               i < j => ReadKey(fetch.calls[i]) # ReadKey(fetch.calls[j])
        /\ SlotsRead =
             {L1Attributes(1), <<"420000000000000000000000000000000000000F", 0>>}
             \cup (IF PreEcotone(fetch.spec_id)
                   THEN {L1Attributes(5), L1Attributes(6)}
                   ELSE {L1Attributes(7), L1Attributes(3)}
                        \cup (IF info.empty_scalars THEN {L1Attributes(5)} ELSE {}))
        /\ PreEcotone(fetch.spec_id) =>
               /\ info.l1_fee_overhead =
                      Some(ValueRead("4200000000000000000000000000000000000015", 5))
               /\ info.l1_base_fee_scalar =
                      ValueRead("4200000000000000000000000000000000000015", 6)

\* A fetch under ECOTONE that found the scalars unset and read the legacy
\* overhead slot as its fifth storage read.
C25_Witness ==
    /\ Fetched
    /\ fetch.spec_id = "ECOTONE"
    /\ info.empty_scalars
    /\ Cardinality(SlotsRead) = 5
    /\ L1Attributes(5) \in SlotsRead

\* Values the three fields may take instead.
OtherValues == {ZERO, from(1), MAX}

C26_NameRoundTrip ==
    /\ ret.op = "into_str" => MantleSpecId_from_str(ret.value) = ret.self
    /\ ret.op = "from_str" =>
           /\ ret.name = "Bedrock" => ret.value = "BEDROCK"
           /\ ret.name = "Regolith" => ret.value = "REGOLITH"
           /\ ret.name = "Canyon" => ret.value = "CANYON"
           /\ ret.name = "Ecotone" => ret.value = "ECOTONE"
           /\ ret.name = "Fjord" => ret.value = "FJORD"
           /\ ret.name = "Granite" => ret.value = "GRANITE"

\* The hardforks that have no SPEC type of their own, with the hardfork whose
\* type stands in.
StandIn ==
    [ FRONTIER_THAWING |-> "FRONTIER", DAO_FORK |-> "HOMESTEAD",
      CONSTANTINOPLE |-> "PETERSBURG", MUIR_GLACIER |-> "ISTANBUL",
      ARROW_GLACIER |-> "LONDON", GRAY_GLACIER |-> "LONDON" ]

\* C27: the type mantle_spec_to_generic selects for a hardfork has that
\* hardfork as its MANTLE_SPEC_ID, but for the six hardforks that have no
\* type of their own, which select the type of the stand-in; and the generic
\* SPEC_ID of the selected type is the generic conversion of its
\* MANTLE_SPEC_ID.
C27_SelectedSpecType ==
    ret.op = "mantle_spec_to_generic" =>
        /\ ret.MANTLE_SPEC_ID =
               (IF ret.spec_id \in DOMAIN StandIn THEN StandIn[ret.spec_id]
                ELSE ret.spec_id)
        /\ ret.SPEC_ID = SpecId_from(ret.MANTLE_SPEC_ID)

\* GRAY_GLACIER, run as LondonSpec.
C27_Witness ==
    /\ ret.op = "mantle_spec_to_generic"
    /\ ret.spec_id = "GRAY_GLACIER"
    /\ ret.SPEC = "LondonSpec"
    /\ ret.MANTLE_SPEC_ID = "LONDON"
    /\ ret.SPEC_ID = "SpecId::LONDON"

(***************************************************************************)
(* C29: the checkpoints of bvm_eth.rs (under BvmSpec).                     *)
(***************************************************************************)
\* C29: a call of mint_bvm_eth or transfer_bvm_eth that returns has closed
\* the checkpoint it opened, on every path, so that after any sequence of
\* mints and transfers as many checkpoints are open as before it: none.
C29_CheckpointsClosed ==
    /\ (ret.op \in {"mint_bvm_eth", "transfer_bvm_eth"} /\ ret.outcome = "returned")
           => journaled_state.depth = ret.depth_before
    /\ ret = NoCall => journaled_state.depth = 0

(***************************************************************************)
(* C30: hints of the wrong length (under OracleSpec).                      *)
(***************************************************************************)
\* The length each hint type requires of its data.
RequiredLength ==
    [ L2BlockHeader |-> 32, L2Transactions |-> 32, L2Code |-> 32,
      L2StateNode |-> 32, L2AccountProof |-> 28, L2AccountStorageProof |-> 60 ]

\* C30: write, given well-formed hint data that has not the length its hint
\* type requires, too short or too long, returns an error: it does not panic
\* and it leaves the cache as it was.
C30_WrongLengthIsError ==
    (/\ ret.op = "write"
     /\ ret.hint.well_formed
     /\ ret.hint.hint_type \in DOMAIN RequiredLength
     /\ ret.hint.len # RequiredLength[ret.hint.hint_type]) =>
        /\ ret.outcome = "err"
        /\ cache = ret.cache_before

====
